---- MODULE Spec2Model ----
(***************************************************************************)
(* Model of the xbridge swap coordination core (xbridgeapp.cpp):           *)
(* the order store (m_transactions / m_historicTransactions), the UTXO     *)
(* lock manager (m_utxosDict / m_feeUtxos), createOrder                    *)
(* (sendXBridgeTransaction), acceptOrder (acceptXBridgeTransaction), the   *)
(* expiry sweep, the stuck-order relay and the inbound message de-dup set. *)
(***************************************************************************)
EXTENDS FiniteSets, Integers, Sequences, TLC

(***************************************************************************)
(* Bounds of the model.                                                    *)
(***************************************************************************)
MaxCalls == 3       \* API calls and order announcements started in a run
MaxTime == 3        \* the clock stops advancing here
MaxRefresh == 3     \* wallet refreshes started in a run

(***************************************************************************)
(* Threads, currencies, wallets.                                           *)
(***************************************************************************)
Procs == {"p1", "p2"}
Cur == {"BLOCK", "LTC"}
LongCurrency == "LONGCURRENCY"
CurrencySize(c) == IF c = LongCurrency THEN 12 ELSE IF c = "BLOCK" THEN 5 ELSE 3

\* wallet contents: utxo ids 1,2 are BLOCK outputs, 3,4 are LTC outputs
WalletUtxos(c) == IF c = "BLOCK" THEN {1, 2} ELSE IF c = "LTC" THEN {3, 4} ELSE {}
AllUtxos == {1, 2, 3, 4}
\* utxos 5 to 12 are the outputs handed to selectUtxos on its own: their amounts
\* and addresses, equal amounts in both orders of the addresses
SelectPool == 5..12
PoolAmount == <<8, 10, 20, 20, 30, 30, 7000, 25>>
PoolAddress == <<"a", "a", "b", "a", "a", "b", "a", "b">>
Amount(u) == IF u \in SelectPool THEN PoolAmount[u - 4] ELSE IF u \in {1, 3} THEN 20 ELSE 10
Address(u) == IF u \in SelectPool THEN PoolAddress[u - 4] ELSE "a"
\* (fromAmount, toAmount) of a request
AmountPairs == {<<1, 2>>, <<2, 1>>, <<2, 2>>, <<15, 2>>}
\* the orders a caller or the network may ask for:
\* (fromCurrency, toCurrency, fromAmount, toAmount)
AllRequests ==
    {<<"BLOCK", "LTC">>, <<"LTC", "BLOCK">>, <<LongCurrency, "BLOCK">>} \X AmountPairs
StoreRequests == {<<<<"BLOCK", "LTC">>, <<2, 2>>>>}
DustAmount == 2
IsDustAmount(a) == a < DustAmount

Range(s) == {s[i] : i \in DOMAIN s}

RECURSIVE SumAmount(_)
SumAmount(S) ==
    IF S = {} THEN 0
    ELSE LET u == CHOOSE x \in S : TRUE IN Amount(u) + SumAmount(S \ {u})

(***************************************************************************)
(* Connector fee functions (per-wallet; 1 unit per input and per output).  *)
(***************************************************************************)
MinTxFee1(inputs, outputs) == inputs + outputs
MinTxFee2(inputs, outputs) == inputs + outputs

(***************************************************************************)
(* App::selectUtxos                                                        *)
(***************************************************************************)
\* sort(...) by amount, descending; equal amounts keep ascending utxo id
RECURSIVE SortDesc(_)
SortDesc(S) ==
    IF S = {} THEN <<>>
    ELSE LET m == CHOOSE x \in S :
                    \A y \in S : Amount(x) > Amount(y) \/ (Amount(x) = Amount(y) /\ x <= y)
         IN <<m>> \o SortDesc(S \ {m})

RECURSIVE SortAsc(_)
SortAsc(S) ==
    IF S = {} THEN <<>>
    ELSE LET m == CHOOSE x \in S :
                    \A y \in S : Amount(x) < Amount(y) \/ (Amount(x) = Amount(y) /\ x <= y)
         IN <<m>> \o SortAsc(S \ {m})

feeAmount(amt, inputs, outputs) == amt + MinTxFee1(inputs, outputs) + MinTxFee2(1, 1)

\* the ideal input whatever its address
IsIdealAnyAddress(u, addr, minAmount) ==
    /\ Amount(u) >= minAmount
    /\ Amount(u) < minAmount + (MinTxFee1(1, 3) + MinTxFee2(1, 1)) * 1000

IsIdeal(u, addr, minAmount) ==
    /\ Amount(u) >= minAmount
    /\ Amount(u) < minAmount + (MinTxFee1(1, 3) + MinTxFee2(1, 1)) * 1000
    /\ (Address(u) = addr \/ addr = "")

\* the accumulation loop without the fees taken off the running amount
RECURSIVE AccumulateLtNoFees(_, _, _)
AccumulateLtNoFees(lt, k, minAmount) ==
    IF k > Len(lt) THEN <<>>
    ELSE LET sel == SubSeq(lt, 1, k)
             runningAmount == SumAmount(Range(sel))
         IN IF runningAmount >= minAmount THEN sel
            ELSE AccumulateLtNoFees(lt, k + 1, minAmount)

\* the accumulation loop over lt (sorted descending): the shortest prefix
\* whose amount net of fees reaches minAmount, or nothing
RECURSIVE AccumulateLt(_, _, _)
AccumulateLt(lt, k, minAmount) ==
    IF k > Len(lt) THEN <<>>
    ELSE LET sel == SubSeq(lt, 1, k)
             runningAmount == SumAmount(Range(sel)) - (MinTxFee1(k, 3) + MinTxFee2(1, 1))
         IN IF runningAmount >= minAmount THEN sel
            ELSE AccumulateLt(lt, k + 1, minAmount)

selUtxos(a, addr, amt) ==
    LET minAmount == feeAmount(amt, 1, 3)
        ideal == {i \in DOMAIN a : IsIdeal(a[i], addr, minAmount)}
        gt == {a[i] : i \in {j \in DOMAIN a : Amount(a[j]) >= minAmount}}
        lt == {a[i] : i \in {j \in DOMAIN a : Amount(a[j]) < minAmount}}
    IN IF ideal # {}
         THEN <<a[CHOOSE i \in ideal : \A j \in ideal : i <= j]>>
       ELSE IF Cardinality(gt) = 1
         THEN <<CHOOSE u \in gt : TRUE>>
       ELSE IF Cardinality(gt) > 1
         THEN <<SortAsc(gt)[1]>>
       ELSE IF Cardinality(lt) < 2
         THEN <<>>
       ELSE AccumulateLt(SortDesc(lt), 1, minAmount)

\* the selected outputs (outputsForUse); the empty sequence is "return false"
selectUtxos(addr, outputs, requiredAmount) ==
    selUtxos(SortDesc(outputs), addr, requiredAmount)

(***************************************************************************)
(* UTXO lock manager: m_utxosDict (order locks) and m_feeUtxos (fee locks) *)
(***************************************************************************)
LockedOf(dict, token) == IF token \in DOMAIN dict THEN dict[token] ELSE {}

\* getLockedUtxos: m_utxosDict[token] creates the key when it is missing
getLockedUtxosDict(dict, token) ==
    IF token \in DOMAIN dict THEN dict ELSE dict @@ (token :> {})

getAllLockedUtxos(fees, dict, token) == fees \cup LockedOf(dict, token)

lockFeeUtxos(fees, feeUtxos) == fees \cup feeUtxos
unlockFeeUtxos(fees, feeUtxos) == fees \ feeUtxos

\* lockCoins that inserts the free utxos of a request it rejects
lockCoinsPartial(dict, token, utxos) ==
    IF token \notin DOMAIN dict
      THEN [ok |-> TRUE, dict |-> dict @@ (token :> utxos)]
    ELSE IF \E u \in utxos : u \in dict[token]
      THEN [ok |-> FALSE, dict |-> [dict EXCEPT ![token] = @ \cup utxos]]
    ELSE [ok |-> TRUE, dict |-> [dict EXCEPT ![token] = @ \cup utxos]]

\* lockCoins that accepts a request without recording it
lockCoinsNoInsert(dict, token, utxos) ==
    IF token \notin DOMAIN dict
      THEN [ok |-> TRUE, dict |-> dict @@ (token :> {})]
    ELSE IF \E u \in utxos : u \in dict[token]
      THEN [ok |-> FALSE, dict |-> dict]
    ELSE [ok |-> TRUE, dict |-> dict]

lockCoins(dict, token, utxos) ==
    IF token \notin DOMAIN dict
      THEN [ok |-> TRUE, dict |-> dict @@ (token :> utxos)]
    ELSE IF \E u \in utxos : u \in dict[token]
      THEN [ok |-> FALSE, dict |-> dict]
    ELSE [ok |-> TRUE, dict |-> [dict EXCEPT ![token] = @ \cup utxos]]

unlockCoins(dict, token, utxos) ==
    IF token \notin DOMAIN dict THEN dict
    ELSE [dict EXCEPT ![token] = @ \ utxos]

\* connector getUnspent(outputs, excluded) / getWalletBalance(excluded)
getUnspent(c, excluded) == WalletUtxos(c) \ excluded
getWalletBalance(c, excluded) == SumAmount(WalletUtxos(c) \ excluded)

(***************************************************************************)
(* Order states (TransactionDescr::State), ranked in the listed order.     *)
(***************************************************************************)
StateOrder ==
    <<"trNew", "trPending", "trAccepting", "trHold", "trInitializedWait",
      "trInitialized", "trCreatedWait", "trCreated", "trSignedWait", "trSigned",
      "trCommittedWait", "trCommitted", "trFinished", "trCancelled",
      "trRolledBack", "trOffline", "trExpired", "trInvalid", "trDroppedByUser">>
StateRank(s) == CHOOSE i \in DOMAIN StateOrder : StateOrder[i] = s

\* Transaction::pendingTTL, TTL, deadlineTTL and the relay ages, in clock units
pendingTTL == 1
TTL == 2
deadlineTTL == 2
NewRelayAge == 1
PendingRelayAge == 1

(***************************************************************************)
(* State.                                                                  *)
(***************************************************************************)
(***************************************************************************)
(* Hashing and serialization (Hash of hash.h, CHashWriter)                 *)
(***************************************************************************)
HashMod == 65521

\* one round of the digest over a byte string: the bytes from the i-th on;
\* h is a digest state, below HashMod
RECURSIVE ShaChunk(_, _, _, _)
ShaChunk(h, bytes, i, last) ==
    IF h >= HashMod \/ i > last THEN h
    ELSE ShaChunk((h * 257 + bytes[i] + 1) % HashMod, bytes, i + 1, last)

\* the rounds are taken sixteen bytes at a time
RECURSIVE ShaFrom(_, _, _)
ShaFrom(h, bytes, i) ==
    IF h >= HashMod \/ i > Len(bytes) THEN h
    ELSE ShaFrom(ShaChunk(h, bytes, i, IF i + 15 < Len(bytes) THEN i + 15 ELSE Len(bytes)),
                 bytes, i + 16)

Sha(h, bytes) == ShaFrom(h, bytes, 1)

\* an unsigned integer below 2^31 as n bytes, little endian
LE(v, n) == [i \in 1..n |-> IF i <= 4 THEN (v \div (256 ^ (i - 1))) % 256 ELSE 0]

\* Hash(begin, end) and CHashWriter::GetHash: the digest of the digest
Hash(bytes) == Sha(7, LE(Sha(7, bytes), 2))

\* serialization of std::string and std::vector<unsigned char>: size, then bytes
SerBytes(b) == <<Len(b)>> \o b
SerU64(v) == LE(v, 8)
SerU256(v) == LE(v, 32)
Text(c) == IF c = "BLOCK" THEN <<66, 76, 79, 67, 75>>
           ELSE IF c = "LTC" THEN <<76, 84, 67>>
           ELSE <<>>

(***************************************************************************)
(* Inbound messages                                                        *)
(***************************************************************************)
Messages == {<<1>>, <<2>>, <<1, 2>>, <<1, 1>>}
MessageHashes == {Hash(m) : m \in Messages}
\* -maxmempoolxbridge in bytes: room for one hash of 64 bytes
maxMBytes == 64
MaxHandled == 2

VARIABLES
    orders,                 \* every TransactionDescr object constructed, by id
    nextId,                 \* ids handed out so far + 1
    calls,                  \* calls started so far
    m_transactions,         \* keys of the live map
    m_historicTransactions, \* keys of the history map
    m_utxosDict,            \* currency -> set of locked order utxos
    m_feeUtxos,             \* locked fee utxos
    now,                    \* the clock
    pc,                     \* per thread: position inside the running call
    loc,                    \* per thread: locals of the running call
    sweepPc,                \* timer worker: position inside the expiry sweep
    forErase,               \* timer worker: ids collected by the sweep
    observe,                \* the callers keep the results of their calls
    requests,               \* the orders asked for in this run
    lastLock,               \* the last call of the lock manager made from outside
    m_processedMessages,    \* hashes of the messages seen
    msgPc,                  \* per network thread: position inside the handler
    msgLoc,                 \* per network thread: locals of the handler
    handled,                \* per hash: processPacket calls since the last clear
    idRuns,                 \* the createOrder runs whose id was computed
    m_connectors,           \* the connector list
    m_connectorCurrencyMap, \* currency -> connector
    m_connectorAddressMap,  \* address -> connector
    m_badWallets,           \* currency -> time its init() failed
    m_updatingWallets,      \* a wallet refresh is running
    upd,                    \* wallet refresh: position and locals
    connHeld,               \* per API thread: the connector it looked up
    lastReg,                \* the last addConnector / removeConnector call
    walletSettings,         \* the wallet settings the configuration may hold in this run
    sigRun,                 \* the last BCH refund / payment transaction signed
    payloadRun,             \* the last fee payload acceptOrder built
    coinRun,                \* the coin string given to xBridgeValidCoin and its result
    knownRun,               \* the seen-set by its size, under a -maxmempoolxbridge setting
    m_sessions,             \* the queue of sessions
    m_sessionAddressMap,    \* session address -> session
    routeRun,               \* the last packet onMessageReceived looked at and who processed it
    lastSweep,              \* the scan of the running expiry sweep: what it saw and skipped
    selRun,                 \* the last call of selectUtxos on its own: inputs and outputs
    snodes,                 \* the service node list: node -> services, running
    relayRun,               \* the last run of the relay check, when the run is watched
    m_watching,             \* a run of checkWatchesOnDepositSpends is in progress
    m_watchDeposits,        \* ids of the orders watched for the spend of a deposit
    xtx,                    \* per watched order: the watch fields of its TransactionDescr
    watchPc,                \* per timer thread: position inside checkWatchesOnDepositSpends
    watches,                \* per timer thread: the ids of its copy still to look at
    blockCount,             \* the height of the chain of connFrom
    payTx,                  \* where the counterparty's pay tx is: nowhere, mempool, a block
    watchRun,               \* the last order a run of the deposit watcher looked at
    m_watchingTraders,      \* a run of watchTraderDeposits is in progress
    m_watchTraders,         \* ids of the exchange records watched for refunds
    tr,                     \* per watched record: the fields of its Transaction
    tradersPc,              \* per timer thread: position inside watchTraderDeposits
    tradersWatches,         \* per timer thread: the ids of its copy still to look at
    traderRun,              \* the last record a run of the refund watchdog looked at
    rng,                    \* the state of the static engine of findShuffledNodesWithService
    nodeRun,                \* the calls of the service-node selector, the latest last
    lockPc,                 \* per thread: the operation it is in and its next lock step
    lockHeld,               \* per thread: the locks it holds, the latest last
    m_pendingPackets,       \* order id -> the packet deferred for it
    ppCounter,              \* the static counter of onTimer for the pending packets
    ppLog,                  \* per packet stored: its order id and what became of it
    ppPosted,               \* the packets the last tick posted to sessions
    flushRun,               \* the last call of flushCancelledOrders and what it returned
    buildRun                \* the last call of a BCH transaction builder and what it returned

swapVars == <<orders, nextId, calls, m_transactions, m_historicTransactions, m_utxosDict,
              m_feeUtxos, now, pc, loc, sweepPc, forErase>>

\* what the threads of the swap engine never write
depVars == <<m_watching, m_watchDeposits, xtx, watchPc, watches, blockCount, payTx, watchRun>>
trVars == <<m_watchingTraders, m_watchTraders, tr, tradersPc, tradersWatches, traderRun>>
snVars == <<rng, nodeRun>>
lockVars == <<lockPc, lockHeld>>
ppVars == <<m_pendingPackets, ppCounter, ppLog, ppPosted>>
lastVars == <<snVars, lockVars, ppVars, flushRun, buildRun>>
laterVars == <<selRun, snodes, relayRun, depVars, trVars, lastVars>>
confVars == <<observe, requests, laterVars>>
msgVars == <<m_processedMessages, msgPc, msgLoc, handled>>
walletVars == <<m_connectors, m_connectorCurrencyMap, m_connectorAddressMap, m_badWallets,
                m_updatingWallets, upd, connHeld, lastReg, walletSettings>>
utilVars == <<sigRun, payloadRun, coinRun, knownRun>>
sessionVars == <<m_sessions, m_sessionAddressMap, routeRun>>
extVars == <<walletVars, utilVars, lastSweep, sessionVars>>
aux == <<confVars, lastLock, msgVars, idRuns, extVars>>

Loc0 ==
    [op |-> "none", id |-> 0, cur |-> "", toCur |-> "", amt |-> 0, toAmt |-> 0,
     sel |-> <<>>, prior |-> "", result |-> "",
     pool |-> {}, pred |-> {}, acqCoins |-> {}, acqFee |-> {}, leak |-> {},
     restored |-> TRUE]

\* the object of an order that no map and no thread refers to any more
Freed ==
    [state |-> "free", role |-> "", local |-> FALSE, fromCurrency |-> "", toCurrency |-> "",
     fromAmount |-> 0, toAmount |-> 0, usedCoins |-> <<>>, feeUtxos |-> {},
     txtime |-> 0, created |-> 0, sPubKey |-> "", excludedNodes |-> {}]

\* shared_ptr: an object lives while a map or a running call holds it
Release(ords, live, hist, pcs, locs) ==
    [id \in DOMAIN ords |->
        IF id \in live \cup hist \cup {locs[q].id : q \in {r \in Procs : pcs[r] \notin {"idle", "done"}}}
          THEN ords[id] ELSE Freed]

InitSwap ==
    /\ orders = <<>>
    /\ nextId = 1
    /\ calls = 0
    /\ m_transactions = {}
    /\ m_historicTransactions = {}
    /\ m_utxosDict = <<>>
    /\ m_feeUtxos = {}
    /\ now = 0
    /\ pc = [p \in Procs |-> "idle"]
    /\ loc = [p \in Procs |-> Loc0]
    /\ sweepPc = "idle"
    /\ forErase = {}

NoLock == [op |-> "none", token |-> "", utxos |-> {}, before |-> <<>>, ok |-> TRUE]

\* the state of everything besides the swap engine after construction
NoMsg == [entry |-> "", message |-> <<>>, stale |-> FALSE]
NoRun == [computed |-> FALSE]
Runs == {1, 2}

(***************************************************************************)
(* Connector registry: m_connectors, m_connectorCurrencyMap,               *)
(* m_connectorAddressMap, guarded by m_connectorsLock                      *)
(***************************************************************************)
\* a WalletConnector object: its currency and the refresh that constructed it
NoConn == [currency |-> "", gen |-> 0]
Addrs == {"a1", "a2"}

\* the three containers as one value
Registry ==
    [list |-> m_connectors, cur |-> m_connectorCurrencyMap, addr |-> m_connectorAddressMap]

\* addConnector leaving the address map alone
addConnectorKeepsAddresses(r, conn) ==
    [list |-> Append(SelectSeq(r.list, LAMBDA x : x.currency # conn.currency), conn),
     cur |-> [c \in DOMAIN r.cur \cup {conn.currency} |->
                IF c = conn.currency THEN conn ELSE r.cur[c]],
     addr |-> r.addr]

\* App::addConnector
addConnector(r, conn) ==
    [list |-> Append(SelectSeq(r.list, LAMBDA x : x.currency # conn.currency), conn),
     cur |-> [c \in DOMAIN r.cur \cup {conn.currency} |->
                IF c = conn.currency THEN conn ELSE r.cur[c]],
     addr |-> [a \in DOMAIN r.addr |->
                IF r.addr[a].currency = conn.currency THEN conn ELSE r.addr[a]]]

\* App::removeConnector
removeConnector(r, currency) ==
    [list |-> SelectSeq(r.list, LAMBDA x : x.currency # currency),
     cur |-> [c \in DOMAIN r.cur \ {currency} |-> r.cur[c]],
     addr |-> [a \in {b \in DOMAIN r.addr : r.addr[b].currency # currency} |-> r.addr[a]]]

\* App::updateConnector
updateConnector(r, conn, addr, currency) ==
    [list |-> r.list,
     cur |-> [c \in DOMAIN r.cur \cup {currency} |-> IF c = currency THEN conn ELSE r.cur[c]],
     addr |-> [a \in DOMAIN r.addr \cup {addr} |-> IF a = addr THEN conn ELSE r.addr[a]]]

\* App::connectorByCurrency
connectorByCurrency(r, currency) ==
    IF currency \in DOMAIN r.cur THEN r.cur[currency] ELSE NoConn

\* the addresses whose connector is one of the currency
AddrsOf(r, currency) == {a \in DOMAIN r.addr : r.addr[a].currency = currency}

NoReg == [op |-> "none", conn |-> NoConn, currency |-> "", addrs |-> {}, k |-> 0]

(***************************************************************************)
(* Wallet settings and the checks of App::updateActiveWallets              *)
(***************************************************************************)
\* the locktime constants of the xbridge definitions header
XMIN_LOCKTIME_BLOCKS == 6
XMAKER_LOCKTIME_TARGET_SECONDS == 7200
XTAKER_LOCKTIME_TARGET_SECONDS == 3000
XSLOW_BLOCKTIME_SECONDS == 600
XSLOW_TAKER_LOCKTIME_TARGET_SECONDS == 6000
XLOCKTIME_DRIFT_SECONDS == 1200
XMAX_LOCKTIME_DRIFT_BLOCKS == 5

\* uint32_t values as two 16-bit halves
Half == 65536
\* the conversion of an int to uint32_t
ToU32(n) ==
    IF n >= 0 THEN [hi |-> n \div Half, lo |-> n % Half]
    ELSE [hi |-> (Half - 1) - ((-n - 1) \div Half), lo |-> (Half - 1) - ((-n - 1) % Half)]
\* u * k in uint32_t, k below 2^15
Mul32(u, k) ==
    [hi |-> (u.hi * k + ((u.lo * k) \div Half)) % Half, lo |-> (u.lo * k) % Half]
\* comparisons of a uint32_t with a value t below 2^16
Gt32(u, t) == u.hi > 0 \/ u.lo > t
Lt32(u, t) == u.hi = 0 /\ u.lo < t
IsZero32(u) == u.hi = 0 /\ u.lo = 0
\* t / u in uint32_t, t below 2^16, u not zero
Div32(t, u) == IF u.hi > 0 THEN 0 ELSE t \div u.lo
Max(a, b) == IF a >= b THEN a ELSE b

\* the fields of WalletParam the refresh looks at; ipOk = m_ip and m_port are set
WalletParam0 ==
    [ipOk |-> TRUE, COIN |-> 100, blockTime |-> 60, requiredConfirmations |-> 1, method |-> "BTC"]
BlockTimes == {0, 500, 501, 600, 1000, 1001, 1200, 1201, 715827883, -1}
Confirmations == {<<60, 20>>, <<60, 21>>, <<600, 5>>, <<600, 6>>, <<60, -1>>}
Methods == {"BCH", "DGB", "ETH", "OTHER"}
WalletParams ==
    {WalletParam0, [WalletParam0 EXCEPT !.ipOk = FALSE], [WalletParam0 EXCEPT !.COIN = 0]}
    \cup {[WalletParam0 EXCEPT !.blockTime = b] : b \in BlockTimes}
    \cup {[WalletParam0 EXCEPT !.blockTime = bc[1], !.requiredConfirmations = bc[2]] :
             bc \in Confirmations}
    \cup {[WalletParam0 EXCEPT !.method = m] : m \in Methods}

\* lines 981-1052: what the refresh does with a wallet of these settings
checkWallet(wp) ==
    LET blockTime == ToU32(wp.blockTime)
        requiredConfirmations == ToU32(wp.requiredConfirmations)
        locktime == Mul32(blockTime, XMIN_LOCKTIME_BLOCKS)
        maxConfirmations == Max(Div32(XLOCKTIME_DRIFT_SECONDS, blockTime),
                                XMAX_LOCKTIME_DRIFT_BLOCKS)
    IN IF ~wp.ipOk \/ wp.COIN = 0 \/ IsZero32(blockTime) THEN "config"
       ELSE IF Gt32(locktime, XMAKER_LOCKTIME_TARGET_SECONDS) THEN "maker"
       ELSE IF Lt32(blockTime, XSLOW_BLOCKTIME_SECONDS)
               /\ Gt32(locktime, XTAKER_LOCKTIME_TARGET_SECONDS) THEN "taker"
       ELSE IF ~Lt32(blockTime, XSLOW_BLOCKTIME_SECONDS)
               /\ Gt32(locktime, XSLOW_TAKER_LOCKTIME_TARGET_SECONDS) THEN "slowTaker"
       ELSE IF Gt32(requiredConfirmations, maxConfirmations) THEN "confirmations"
       ELSE IF wp.method = "ETH" THEN "unsupported"
       ELSE IF wp.method \notin {"BTC", "SYS", "BCH", "DGB"} THEN "unknown"
       ELSE "admitted"
NoHeld == [conn |-> NoConn, key |-> ""]

\* the wait before a wallet whose init() failed is probed again, in clock ticks
BadWalletWait == 2
\* the values of Settings::exchangeWallets
WalletLists == {<<"BLOCK", "LTC">>, <<"BLOCK">>}

NoEval == [currency |-> "", wp |-> WalletParam0, res |-> "", erased |-> FALSE]
\* the locals of App::updateActiveWallets; gen counts the refreshes
Upd0 ==
    [pc |-> "idle", gen |-> 0, wallets |-> <<>>, toRemove |-> {}, badWallets |-> <<>>,
     conns |-> {}, validConnections |-> <<>>, badConnections |-> <<>>, validWallets |-> {},
     lastEval |-> NoEval]

\* settings that pass every check, and settings without a COIN
BasicParams == {WalletParam0, [WalletParam0 EXCEPT !.COIN = 0]}

NoSig == [computed |-> FALSE]

NoPayload == [computed |-> FALSE]
NoCoin == [coin |-> <<>>, computed |-> FALSE, valid |-> FALSE]
\* findShuffledNodesWithService, lines 2474-2509: the running nodes with all the
\* services asked for that are not in notIn (the list is shuffled: any may be first)
findShuffledNodesWithService(list, services, notIn) ==
    {n \in DOMAIN list : /\ n \notin notIn
                         /\ list[n].running
                         /\ services \subseteq list[n].services}

\* hasNodeService, lines 2519-2526
hasNodeService(list, node, service) ==
    node \in DOMAIN list /\ service \in list[node].services

NoKnown == [setting |-> 128, size |-> 0, has |-> FALSE, last |-> "", before |-> 0, cleared |-> FALSE]
NoRoute == [id |-> "", verified |-> FALSE, known |-> FALSE, direct |-> FALSE, conn |-> FALSE,
            sn |-> FALSE, processed |-> <<>>, entry |-> "", message |-> <<>>]
NoSweep == [skipped |-> {}, before |-> <<>>, time |-> 0, erased |-> {}]
NoRelay == [on |-> FALSE, flip |-> FALSE, sent |-> {}]
NoSel == [called |-> FALSE, addr |-> "", outputs |-> {}, requiredAmount |-> 0,
          outputsForUse |-> <<>>, ok |-> FALSE]

\* the pay tx of the counterparty is not sent yet, or in the mempool; a number
\* above 0 is the block that holds it
NoPayTx == 0
InMempool == -1

\* one service node, running, with every currency
OneSnode == [n \in {"n1"} |-> [services |-> Cur \cup {LongCurrency}, running |-> TRUE]]

\* the threads of the io services the timer posts to
WatchThreads == {"t1", "t2"}
NoCheck == [conn |-> FALSE, count |-> FALSE, blockCount |-> 0, blockTime |-> 0, res |-> ""]
NoTraderRun == [id |-> 0, a |-> NoCheck, b |-> NoCheck, skipped |-> FALSE]
NoWatchRun == [id |-> 0, refunded |-> FALSE, redeemed |-> FALSE, skipped |-> FALSE]

\* std::default_random_engine rng{0}, line 2506: the state of minstd_rand0 seeded
\* with 0 is 1
EngineSeed == 1

NoFlush == [n |-> 0, keepTime |-> 0, list |-> <<>>]
\* no builder of the BCH connector has been called
NoBuild == [called |-> FALSE]

\* the threads that take the locks of App
LockThreads == {"t1", "t2"}

\* the engine is seeded and the selector was not called, no thread holds a lock
InitLast ==
    /\ rng = EngineSeed
    /\ nodeRun = <<>>
    /\ lockPc = [t \in LockThreads |-> [op |-> "idle", at |-> 1]]
    /\ lockHeld = [t \in LockThreads |-> <<>>]
    /\ m_pendingPackets = <<>>
    /\ ppCounter = 0
    /\ ppLog = <<>>
    /\ ppPosted = {}
    /\ flushRun = NoFlush
    /\ buildRun = NoBuild

\* no order is watched, the chain of connFrom has one block
InitWatchers ==
    /\ snodes = OneSnode
    /\ m_watching = FALSE
    /\ m_watchDeposits = {}
    /\ xtx = <<>>
    /\ watchPc = [t \in WatchThreads |-> "idle"]
    /\ watches = [t \in WatchThreads |-> <<>>]
    /\ blockCount = 1
    /\ payTx = NoPayTx
    /\ watchRun = NoWatchRun
    /\ m_watchingTraders = FALSE
    /\ m_watchTraders = {}
    /\ tr = <<>>
    /\ tradersPc = [t \in WatchThreads |-> "idle"]
    /\ tradersWatches = [t \in WatchThreads |-> <<>>]
    /\ traderRun = NoTraderRun
    /\ InitLast

InitLater == InitWatchers /\ relayRun = NoRelay

InitExtCore ==
    /\ sigRun = NoSig
    /\ selRun = NoSel
    /\ lastSweep = NoSweep
    /\ payloadRun = NoPayload
    /\ routeRun = NoRoute
    /\ m_badWallets = <<>>
    /\ m_updatingWallets = FALSE
    /\ upd = Upd0
    /\ connHeld = [p \in Procs |-> NoHeld]
    /\ lastReg = NoReg
    /\ lastLock = NoLock
    /\ m_processedMessages = {}
    /\ msgPc = [t \in Procs |-> "idle"]
    /\ msgLoc = [t \in Procs |-> NoMsg]
    /\ handled = [h \in MessageHashes |-> 0]
    /\ idRuns = [r \in Runs |-> NoRun]

InitExtBut == InitLater /\ InitExtCore

\* App::init, lines 425-434, on one core: one session; no connector yet
InitContainers ==
    /\ m_connectors = <<>>
    /\ m_connectorCurrencyMap = <<>>
    /\ m_connectorAddressMap = <<>>
    /\ m_sessions = <<"s1">>
    /\ m_sessionAddressMap = [a \in {"s1"} |-> "s1"]

InitExt == InitExtBut /\ InitContainers

InitRest == InitExt /\ walletSettings = BasicParams /\ coinRun = NoCoin /\ knownRun = NoKnown

\* a call starts: the run's budget of calls
StartCall ==
    /\ calls < MaxCalls
    /\ calls' = calls + 1

\* createOrder calls on currency c in progress whose funding is already decided
Decided(c) ==
    {q \in Procs : loc[q].op = "create" /\ loc[q].cur = c /\ pc[q] = "c_insert"}

\* a call returns with final frame l: what the caller keeps of it
Returned == IF observe THEN "done" ELSE "idle"
Kept(l) == IF observe THEN l ELSE Loc0

\* the caller of thread p has taken the result of its call
Return(p) ==
    /\ pc[p] = "done"
    /\ pc' = [pc EXCEPT ![p] = "idle"]
    /\ loc' = [q \in Procs |-> IF q = p THEN Loc0 ELSE [loc[q] EXCEPT !.pred = @ \ {p}]]
    /\ UNCHANGED <<orders, nextId, calls, m_transactions, m_historicTransactions, m_utxosDict,
                   m_feeUtxos, now, sweepPc, forErase, aux>>

(***************************************************************************)
(* App::sendXBridgeTransaction (createOrder)                               *)
(***************************************************************************)
\* checkAmount: the result, given whether the connector exists
checkAmount(currency, amount, connOk) ==
    IF ~connOk THEN "NO_SESSION"
    ELSE IF getWalletBalance(currency, getAllLockedUtxos(m_feeUtxos, m_utxosDict, currency)) < amount
      THEN "INSIFFICIENT_FUNDS"
    ELSE "SUCCESS"

checkCreateParams(fromCurrency, toCurrency, fromAmount, connOk) ==
    IF CurrencySize(fromCurrency) > 8 \/ CurrencySize(toCurrency) > 8
      THEN "INVALID_CURRENCY"
    ELSE checkAmount(fromCurrency, fromAmount, connOk)

\* the checks of lines 1377-1438, in the order of the code; env tells which
\* collaborator is missing
CreateValidation(fromCurrency, toCurrency, fromAmount, toAmount, env) ==
    IF env = "noSnode" THEN "NO_SERVICE_NODE"
    ELSE IF checkCreateParams(fromCurrency, toCurrency, fromAmount, env # "noConnFrom") # "SUCCESS"
      THEN checkCreateParams(fromCurrency, toCurrency, fromAmount, env # "noConnFrom")
    ELSE IF env = "noConnTo" THEN "NO_SESSION"
    ELSE IF IsDustAmount(fromAmount) THEN "DUST"
    ELSE IF IsDustAmount(toAmount) THEN "DUST"
    ELSE "SUCCESS"

\* checkAmount reads the locked set through getLockedUtxos, which creates the key
CreateValidationDict(fromCurrency, toCurrency, env) ==
    IF env \notin {"noSnode", "noConnFrom"}
       /\ CurrencySize(fromCurrency) <= 8 /\ CurrencySize(toCurrency) <= 8
      THEN getLockedUtxosDict(m_utxosDict, fromCurrency)
    ELSE m_utxosDict

CreateBegin(p) ==
    /\ pc[p] = "idle"
    /\ StartCall
    /\ \E req \in requests, env \in {"ok", "noSnode", "noConnFrom", "noConnTo"} :
         LET fromCurrency == req[1][1]
             toCurrency == req[1][2]
             amts == req[2]
             res == CreateValidation(fromCurrency, toCurrency, amts[1], amts[2], env)
             l0 == [Loc0 EXCEPT !.op = "create", !.cur = fromCurrency, !.toCur = toCurrency,
                                !.amt = amts[1], !.toAmt = amts[2]]
             lf == IF res = "INSIFFICIENT_FUNDS"
                     THEN [l0 EXCEPT !.result = res,
                                     !.pool = getUnspent(fromCurrency,
                                                 getAllLockedUtxos(m_feeUtxos, m_utxosDict, fromCurrency)),
                                     !.pred = Decided(fromCurrency) \ {p}]
                     ELSE [Loc0 EXCEPT !.op = "create", !.result = res]
         IN /\ m_utxosDict' = CreateValidationDict(fromCurrency, toCurrency, env)
            /\ pc' = [pc EXCEPT ![p] = IF res = "SUCCESS" THEN "c_utxo" ELSE Returned]
            /\ loc' = [loc EXCEPT ![p] = IF res = "SUCCESS" THEN l0 ELSE Kept(lf)]
    /\ UNCHANGED <<orders, nextId, m_transactions, m_historicTransactions,
                   m_feeUtxos, now, sweepPc, forErase, aux>>

\* CreateUtxo locking the selected coins before they are signed
CreateUtxoLocksFirst(p) ==
    /\ pc[p] = "c_utxo"
    /\ \E signRes \in {"SUCCESS", "FUNDS_NOT_SIGNED", "INVALID_SIGNATURE", "INVALID_ADDRESS"} :
         LET l == loc[p]
             dict0 == getLockedUtxosDict(m_utxosDict, l.cur)
             excludedUtxos == getAllLockedUtxos(m_feeUtxos, m_utxosDict, l.cur)
             outputs == getUnspent(l.cur, excludedUtxos)
             outputsForUse == selectUtxos(Address(0), outputs, l.amt)
             locked == lockCoins(dict0, l.cur, Range(outputsForUse))
             ghost == [l EXCEPT !.pool = outputs, !.pred = Decided(l.cur) \ {p}]
         IN IF outputsForUse = <<>>
              THEN /\ m_utxosDict' = dict0
                   /\ pc' = [pc EXCEPT ![p] = Returned]
                   /\ loc' = [loc EXCEPT ![p] = Kept([ghost EXCEPT !.result = "INSIFFICIENT_FUNDS"])]
            ELSE IF signRes # "SUCCESS"
              THEN /\ m_utxosDict' = locked.dict
                   /\ pc' = [pc EXCEPT ![p] = Returned]
                   /\ loc' = [loc EXCEPT ![p] = Kept([ghost EXCEPT !.result = signRes])]
            ELSE IF ~locked.ok
              THEN /\ m_utxosDict' = locked.dict
                   /\ pc' = [pc EXCEPT ![p] = Returned]
                   /\ loc' = [loc EXCEPT ![p] = Kept([ghost EXCEPT !.result = "INSIFFICIENT_FUNDS"])]
            ELSE /\ m_utxosDict' = locked.dict
                 /\ pc' = [pc EXCEPT ![p] = "c_insert"]
                 /\ loc' = [loc EXCEPT ![p] = [ghost EXCEPT !.sel = outputsForUse]]
    /\ UNCHANGED <<orders, nextId, calls, m_transactions, m_historicTransactions,
                   m_feeUtxos, now, sweepPc, forErase, aux>>

\* lines 1443-1520, one critical section of m_utxosOrderLock
CreateUtxo(p) ==
    /\ pc[p] = "c_utxo"
    /\ \E signRes \in {"SUCCESS", "FUNDS_NOT_SIGNED", "INVALID_SIGNATURE", "INVALID_ADDRESS"} :
         LET l == loc[p]
             dict0 == getLockedUtxosDict(m_utxosDict, l.cur)
             excludedUtxos == getAllLockedUtxos(m_feeUtxos, m_utxosDict, l.cur)
             outputs == getUnspent(l.cur, excludedUtxos)
             outputsForUse == selectUtxos(Address(0), outputs, l.amt)
             locked == lockCoins(dict0, l.cur, Range(outputsForUse))
             ghost == [l EXCEPT !.pool = outputs, !.pred = Decided(l.cur) \ {p}]
         IN IF outputsForUse = <<>>
              THEN /\ m_utxosDict' = dict0
                   /\ pc' = [pc EXCEPT ![p] = Returned]
                   /\ loc' = [loc EXCEPT ![p] = Kept([ghost EXCEPT !.result = "INSIFFICIENT_FUNDS"])]
            ELSE IF signRes # "SUCCESS"
              THEN /\ m_utxosDict' = dict0
                   /\ pc' = [pc EXCEPT ![p] = Returned]
                   /\ loc' = [loc EXCEPT ![p] = Kept([ghost EXCEPT !.result = signRes])]
            ELSE IF ~locked.ok
              THEN /\ m_utxosDict' = locked.dict
                   /\ pc' = [pc EXCEPT ![p] = Returned]
                   /\ loc' = [loc EXCEPT ![p] = Kept([ghost EXCEPT !.result = "INSIFFICIENT_FUNDS"])]
            ELSE /\ m_utxosDict' = locked.dict
                 /\ pc' = [pc EXCEPT ![p] = "c_insert"]
                 /\ loc' = [loc EXCEPT ![p] = [ghost EXCEPT !.sel = outputsForUse]]
    /\ UNCHANGED <<orders, nextId, calls, m_transactions, m_historicTransactions,
                   m_feeUtxos, now, sweepPc, forErase, aux>>

NewOrder(l, snode) ==
    [state |-> "trNew", role |-> "A", local |-> TRUE,
     fromCurrency |-> l.cur, toCurrency |-> l.toCur,
     fromAmount |-> l.amt, toAmount |-> l.toAmt,
     usedCoins |-> l.sel, feeUtxos |-> {},
     txtime |-> now, created |-> now, sPubKey |-> snode, excludedNodes |-> {}]

\* lines 1522-1603: the id is the hash over the timestamp just read, so it is
\* an id no earlier order has; the order enters the live map
CreateInsert(p) ==
    /\ pc[p] = "c_insert"
    /\ LET id == nextId
       IN /\ \E snode \in findShuffledNodesWithService(
                              snodes, {loc[p].cur, loc[p].toCur}, {}) :
                orders' = [i \in DOMAIN orders \cup {id} |->
                             IF i = id THEN NewOrder(loc[p], snode) ELSE orders[i]]
          /\ nextId' = nextId + 1
          /\ m_transactions' = m_transactions \cup {id}
          /\ pc' = [pc EXCEPT ![p] = Returned]
          /\ loc' = [loc EXCEPT ![p] = Kept([@ EXCEPT !.id = id, !.result = "SUCCESS"])]
    /\ UNCHANGED <<calls, m_historicTransactions, m_utxosDict, m_feeUtxos, now, sweepPc, forErase, aux>>

(***************************************************************************)
(* App::acceptXBridgeTransaction (acceptOrder)                             *)
(***************************************************************************)
\* lines 1687-1702: look the order up under m_txLocker, read its state
AcceptBegin(p) ==
    /\ pc[p] = "idle"
    /\ StartCall
    /\ \E id \in 1..nextId :
         LET l0 == [Loc0 EXCEPT !.op = "accept", !.id = id]
         IN IF id \notin m_transactions
              THEN /\ pc' = [pc EXCEPT ![p] = Returned]
                   /\ loc' = [loc EXCEPT ![p] = Kept([l0 EXCEPT !.result = "TRANSACTION_NOT_FOUND"])]
            ELSE IF StateRank(orders[id].state) >= StateRank("trAccepting")
              THEN /\ pc' = [pc EXCEPT ![p] = Returned]
                   /\ loc' = [loc EXCEPT ![p] = Kept([l0 EXCEPT !.result = "BAD_REQUEST"])]
            ELSE /\ pc' = [pc EXCEPT ![p] = "a_set"]
                 /\ loc' = [loc EXCEPT ![p] = [l0 EXCEPT !.prior = orders[id].state,
                                                !.cur = orders[id].fromCurrency]]
    /\ UNCHANGED <<orders, nextId, m_transactions, m_historicTransactions, m_utxosDict,
                   m_feeUtxos, now, sweepPc, forErase, aux>>

\* line 1703: the write of the state, not synchronised with the read above
AcceptSet(p) ==
    /\ pc[p] = "a_set"
    /\ orders' = [orders EXCEPT ![loc[p].id].state = "trAccepting"]
    /\ pc' = [pc EXCEPT ![p] = "a_validate"]
    /\ UNCHANGED <<nextId, calls, m_transactions, m_historicTransactions, m_utxosDict,
                   m_feeUtxos, now, loc, sweepPc, forErase, aux>>

\* the checks of lines 1705-1797, in the order of the code; env tells which
\* collaborator fails
AcceptValidation(o, env) ==
    IF env = "noConn" THEN "NO_SESSION"
    ELSE IF IsDustAmount(o.fromAmount) THEN "DUST"
    ELSE IF IsDustAmount(o.toAmount) THEN "DUST"
    ELSE IF env = "noBalance" THEN "INSIFFICIENT_FUNDS_DX"
    ELSE IF env = "noSnode" THEN "NO_SERVICE_NODE"
    ELSE IF env = "bigPayload" THEN "INVALID_ONCHAIN_HISTORY"
    ELSE "SUCCESS"

\* a failing return of acceptOrder: what of this call's locks is still locked
AcceptFail(l, res, dict, fees, ords) ==
    Kept([l EXCEPT !.result = res,
                   !.leak = (l.acqCoins \cap LockedOf(dict, l.cur)) \cup (l.acqFee \cap fees),
                   !.restored = (ords[l.id].state = l.prior)])

AcceptValidate(p) ==
    /\ pc[p] = "a_validate"
    /\ \E env \in {"ok", "noConn", "noBalance", "noSnode", "bigPayload"} :
         LET l == loc[p]
             res == AcceptValidation(orders[l.id], env)
         IN IF res = "SUCCESS"
              THEN /\ pc' = [pc EXCEPT ![p] = "a_utxo"]
                   /\ UNCHANGED <<orders, loc>>
            ELSE /\ orders' = [orders EXCEPT ![l.id].state = l.prior]
                 /\ pc' = [pc EXCEPT ![p] = Returned]
                 /\ loc' = [loc EXCEPT ![p] = AcceptFail(l, res, m_utxosDict, m_feeUtxos, orders')]
    /\ UNCHANGED <<nextId, calls, m_transactions, m_historicTransactions, m_utxosDict,
                   m_feeUtxos, now, sweepPc, forErase, aux>>

\* lines 1802-1927, one critical section of m_utxosOrderLock
\* feeChoice = the utxos createFeeTransaction picks among feeOutputs ({} = it fails)
AcceptUtxo(p) ==
    /\ pc[p] = "a_utxo"
    /\ \E unspentOk \in BOOLEAN, feeChoice \in SUBSET WalletUtxos("BLOCK"),
          signRes \in {"SUCCESS", "FUNDS_NOT_SIGNED", "INVALID_SIGNATURE", "INVALID_ADDRESS"} :
         LET l == loc[p]
             id == l.id
             o == orders[id]
             dict0 == getLockedUtxosDict(m_utxosDict, l.cur)
             \* BLOCK outputs minus the locked utxos of the order's from-currency
             feeOutputs == WalletUtxos("BLOCK") \ getAllLockedUtxos(m_feeUtxos, m_utxosDict, l.cur)
             fees1 == lockFeeUtxos(m_feeUtxos, feeChoice)
             outputs == getUnspent(l.cur, getAllLockedUtxos(fees1, m_utxosDict, l.cur))
             outputsForUse == selectUtxos(Address(0), outputs, o.fromAmount)
             locked == lockCoins(dict0, l.cur, Range(outputsForUse))
             lf == [l EXCEPT !.acqFee = feeChoice]
         IN /\ feeChoice \subseteq feeOutputs
            /\ (~unspentOk) => (feeChoice = {} /\ signRes = "SUCCESS")
            /\ (feeChoice = {} \/ outputsForUse = <<>>) => signRes = "SUCCESS"
            /\ IF ~unspentOk \/ feeChoice = {}
                 THEN \* unspentP2PKH or createFeeTransaction failed
                      /\ orders' = [orders EXCEPT ![id].state = l.prior]
                      /\ m_utxosDict' = IF unspentOk THEN dict0 ELSE m_utxosDict
                      /\ m_feeUtxos' = m_feeUtxos
                      /\ pc' = [pc EXCEPT ![p] = Returned]
                      /\ loc' = [loc EXCEPT ![p] =
                                   AcceptFail(l, "INSIFFICIENT_FUNDS", m_utxosDict', m_feeUtxos', orders')]
               ELSE IF outputsForUse = <<>> \/ signRes # "SUCCESS"
                 THEN /\ orders' = [orders EXCEPT ![id].state = l.prior, ![id].feeUtxos = feeChoice]
                      /\ m_utxosDict' = dict0
                      /\ m_feeUtxos' = unlockFeeUtxos(fees1, feeChoice)
                      /\ pc' = [pc EXCEPT ![p] = Returned]
                      /\ loc' = [loc EXCEPT ![p] =
                                   AcceptFail(lf, IF outputsForUse = <<>> THEN "INSIFFICIENT_FUNDS" ELSE signRes,
                                              m_utxosDict', m_feeUtxos', orders')]
               ELSE IF ~locked.ok
                 THEN /\ orders' = [orders EXCEPT ![id].state = l.prior, ![id].feeUtxos = feeChoice,
                                                  ![id].usedCoins = outputsForUse]
                      /\ m_utxosDict' = locked.dict
                      /\ m_feeUtxos' = fees1
                      /\ pc' = [pc EXCEPT ![p] = Returned]
                      /\ loc' = [loc EXCEPT ![p] =
                                   AcceptFail(lf, "INSIFFICIENT_FUNDS", m_utxosDict', m_feeUtxos', orders')]
               ELSE /\ orders' = [orders EXCEPT ![id].feeUtxos = feeChoice,
                                                ![id].usedCoins = outputsForUse]
                    /\ m_utxosDict' = locked.dict
                    /\ m_feeUtxos' = fees1
                    /\ pc' = [pc EXCEPT ![p] = "a_finish"]
                    /\ loc' = [loc EXCEPT ![p] = [lf EXCEPT !.acqCoins = Range(outputsForUse)]]
    /\ UNCHANGED <<nextId, calls, m_transactions, m_historicTransactions, now, sweepPc, forErase, aux>>

\* AcceptFinish without ptr->clearUsedCoins() on the failing return
AcceptFinishKeepsCoins(p) ==
    /\ pc[p] = "a_finish"
    /\ \E blocksOk \in BOOLEAN :
         LET l == loc[p]
             id == l.id
             o == orders[id]
         IN IF ~blocksOk
              THEN /\ orders' = [orders EXCEPT ![id].state = l.prior]
                   /\ m_utxosDict' = unlockCoins(m_utxosDict, l.cur, Range(o.usedCoins))
                   /\ m_feeUtxos' = unlockFeeUtxos(m_feeUtxos, o.feeUtxos)
                   /\ pc' = [pc EXCEPT ![p] = Returned]
                   /\ loc' = [loc EXCEPT ![p] =
                                AcceptFail(l, "NO_SESSION", m_utxosDict', m_feeUtxos', orders')]
            ELSE /\ orders' = [orders EXCEPT ![id].role = "B", ![id].local = TRUE]
                 /\ pc' = [pc EXCEPT ![p] = Returned]
                 /\ loc' = [loc EXCEPT ![p] = Kept([@ EXCEPT !.result = "SUCCESS"])]
                 /\ UNCHANGED <<m_utxosDict, m_feeUtxos>>
    /\ UNCHANGED <<nextId, calls, m_transactions, m_historicTransactions, now, sweepPc, forErase, aux>>

\* lines 1929-1969: block heights of both chains, then the order is accepted
AcceptFinish(p) ==
    /\ pc[p] = "a_finish"
    /\ \E blocksOk \in BOOLEAN :
         LET l == loc[p]
             id == l.id
             o == orders[id]
         IN IF ~blocksOk
              THEN /\ orders' = [orders EXCEPT ![id].state = l.prior, ![id].usedCoins = <<>>]
                   /\ m_utxosDict' = unlockCoins(m_utxosDict, l.cur, Range(o.usedCoins))
                   /\ m_feeUtxos' = unlockFeeUtxos(m_feeUtxos, o.feeUtxos)
                   /\ pc' = [pc EXCEPT ![p] = Returned]
                   /\ loc' = [loc EXCEPT ![p] =
                                AcceptFail(l, "NO_SESSION", m_utxosDict', m_feeUtxos', orders')]
            ELSE /\ orders' = [orders EXCEPT ![id].role = "B", ![id].local = TRUE]
                 /\ pc' = [pc EXCEPT ![p] = Returned]
                 /\ loc' = [loc EXCEPT ![p] = Kept([@ EXCEPT !.result = "SUCCESS"])]
                 /\ UNCHANGED <<m_utxosDict, m_feeUtxos>>
    /\ UNCHANGED <<nextId, calls, m_transactions, m_historicTransactions, now, sweepPc, forErase, aux>>

(***************************************************************************)
(* Order store                                                             *)
(***************************************************************************)
\* an order of another trader as the session stores it on xbcPendingTransaction
RemoteOrder(fromCurrency, toCurrency, fromAmount, toAmount) ==
    [state |-> "trPending", role |-> "", local |-> FALSE,
     fromCurrency |-> fromCurrency, toCurrency |-> toCurrency,
     fromAmount |-> fromAmount, toAmount |-> toAmount,
     usedCoins |-> <<>>, feeUtxos |-> {},
     txtime |-> now, created |-> now, sPubKey |-> "", excludedNodes |-> {}]

\* appendTransaction without the look-up in the history map
appendTransactionNoHistoryCheck(id, ptr) ==
    IF id \notin m_transactions
      THEN /\ orders' = [i \in DOMAIN orders \cup {id} |-> IF i = id THEN ptr ELSE orders[i]]
           /\ nextId' = IF id = nextId THEN nextId + 1 ELSE nextId
           /\ m_transactions' = m_transactions \cup {id}
    ELSE /\ orders' = [orders EXCEPT ![id].txtime = ptr.txtime]
         /\ UNCHANGED <<nextId, m_transactions>>

\* App::appendTransaction: an order announced by the network
appendTransaction(id, ptr) ==
    IF id \in m_historicTransactions
      THEN UNCHANGED <<orders, nextId, m_transactions>>
    ELSE IF id \notin m_transactions
      THEN /\ orders' = [i \in DOMAIN orders \cup {id} |-> IF i = id THEN ptr ELSE orders[i]]
           /\ nextId' = IF id = nextId THEN nextId + 1 ELSE nextId
           /\ m_transactions' = m_transactions \cup {id}
    ELSE /\ orders' = [orders EXCEPT ![id].txtime = ptr.txtime]
         /\ UNCHANGED <<nextId, m_transactions>>

\* the announced id is a new one or one announced before
AppendTransaction ==
    /\ StartCall
    /\ \E id \in 1..nextId, req \in {r \in requests : r[1][1] \in Cur} :
         /\ (id \notin m_transactions \cup m_historicTransactions) =>
                id \notin {loc[q].id : q \in {r \in Procs : pc[r] \notin {"idle", "done"}}}
         /\ (id \in m_transactions \cup m_historicTransactions) =>
                req = <<<<orders[id].fromCurrency, orders[id].toCurrency>>,
                        <<orders[id].fromAmount, orders[id].toAmount>>>>
         /\ appendTransaction(id, RemoteOrder(req[1][1], req[1][2], req[2][1], req[2][2]))
    /\ UNCHANGED <<m_historicTransactions, m_utxosDict, m_feeUtxos, now, pc, loc, sweepPc, forErase, aux>>

\* App::moveTransactionToHistory, the critical section of m_txLocker
MoveBegin(p) ==
    /\ pc[p] = "idle"
    /\ StartCall
    /\ \E id \in m_transactions :
         /\ m_transactions' = m_transactions \ {id}
         /\ IF id \in m_historicTransactions
              THEN \* "duplicate order in history": return
                   UNCHANGED <<m_historicTransactions, pc, loc>>
              ELSE /\ m_historicTransactions' = m_historicTransactions \cup {id}
                   /\ pc' = [pc EXCEPT ![p] = "m_unlock"]
                   /\ loc' = [loc EXCEPT ![p] = [Loc0 EXCEPT !.op = "move", !.id = id]]
    /\ UNCHANGED <<orders, nextId, m_utxosDict, m_feeUtxos, now, sweepPc, forErase, aux>>

\* App::moveTransactionToHistory, unlockCoins(xtx->fromCurrency, xtx->usedCoins)
MoveUnlock(p) ==
    /\ pc[p] = "m_unlock"
    /\ LET o == orders[loc[p].id]
       IN m_utxosDict' = unlockCoins(m_utxosDict, o.fromCurrency, Range(o.usedCoins))
    /\ pc' = [pc EXCEPT ![p] = "idle"]
    /\ loc' = [loc EXCEPT ![p] = Loc0]
    /\ orders' = Release(orders, m_transactions, m_historicTransactions, pc', loc')
    /\ UNCHANGED <<nextId, calls, m_transactions, m_historicTransactions,
                   m_feeUtxos, now, sweepPc, forErase, aux>>

\* App::flushCancelledOrders
FlushCancelledOrders ==
    /\ \E minAge \in 0..1 :
         LET keepTime == now - minAge
             flushed == {id \in m_transactions \cup m_historicTransactions :
                            orders[id].state = "trCancelled" /\ orders[id].txtime < keepTime}
         IN /\ flushed # {}
            /\ m_transactions' = m_transactions \ flushed
            /\ m_historicTransactions' = m_historicTransactions \ flushed
    /\ orders' = Release(orders, m_transactions', m_historicTransactions', pc, loc)
    /\ UNCHANGED <<nextId, calls, m_utxosDict, m_feeUtxos, now, pc, loc, sweepPc, forErase, aux>>

\* App::clearNonLocalOrders; connected = the keys of m_connectorCurrencyMap
ClearNonLocalOrders ==
    /\ \E connected \in SUBSET Cur :
         LET cleared == {id \in m_transactions :
                            /\ ~orders[id].local
                            /\ (orders[id].fromCurrency \notin connected
                                \/ orders[id].toCurrency \notin connected)}
         IN /\ cleared # {}
            /\ m_transactions' = m_transactions \ cleared
    /\ orders' = Release(orders, m_transactions', m_historicTransactions, pc, loc)
    /\ UNCHANGED <<nextId, calls, m_historicTransactions, m_utxosDict, m_feeUtxos,
                   now, pc, loc, sweepPc, forErase, aux>>

\* the session moves a local order announced by the service node to trPending
SessionPending ==
    /\ \E id \in m_transactions :
         /\ orders[id].state = "trNew"
         /\ orders' = [orders EXCEPT ![id].state = "trPending"]
    /\ UNCHANGED <<nextId, calls, m_transactions, m_historicTransactions, m_utxosDict, m_feeUtxos,
                   now, pc, loc, sweepPc, forErase, aux>>

\* the session cancels an order (xbcTransactionCancel)
SessionCancel ==
    /\ \E id \in m_transactions :
         /\ StateRank(orders[id].state) < StateRank("trCancelled")
         /\ orders' = [orders EXCEPT ![id].state = "trCancelled"]
    /\ UNCHANGED <<nextId, calls, m_transactions, m_historicTransactions, m_utxosDict, m_feeUtxos,
                   now, pc, loc, sweepPc, forErase, aux>>

(***************************************************************************)
(* Timer work: App::Impl::checkAndEraseExpiredTransactions and             *)
(* App::Impl::checkAndRelayPendingOrders                                   *)
(***************************************************************************)
\* SweepErases without the deadline of pending orders
SweepErasesNoDeadline(o, currentTime) ==
    LET td == currentTime - o.txtime
    IN /\ o.state \in {"trExpired", "trOffline"}
       /\ ~(td < pendingTTL)
       /\ td > TTL

\* SweepState sending an overdue pending order back to trNew
SweepStateDemotes(o, currentTime) ==
    LET td == currentTime - o.txtime
    IN IF o.state = "trNew" /\ td > pendingTTL THEN "trOffline"
       ELSE IF o.state = "trPending" /\ td > pendingTTL THEN "trNew"
       ELSE IF o.state \in {"trExpired", "trOffline"} /\ td < pendingTTL THEN "trPending"
       ELSE o.state

\* SweepState resurrecting an order to trNew
SweepStateResurrectsNew(o, currentTime) ==
    LET td == currentTime - o.txtime
    IN IF o.state = "trNew" /\ td > pendingTTL THEN "trOffline"
       ELSE IF o.state = "trPending" /\ td > pendingTTL THEN "trExpired"
       ELSE IF o.state \in {"trExpired", "trOffline"} /\ td < pendingTTL THEN "trNew"
       ELSE o.state

\* lines 2966-2997: the new state of one order whose lock was obtained
SweepState(o, currentTime) ==
    LET td == currentTime - o.txtime
    IN IF o.state = "trNew" /\ td > pendingTTL THEN "trOffline"
       ELSE IF o.state = "trPending" /\ td > pendingTTL THEN "trExpired"
       ELSE IF o.state \in {"trExpired", "trOffline"} /\ td < pendingTTL THEN "trPending"
       ELSE o.state

SweepErases(o, currentTime) ==
    LET td == currentTime - o.txtime
        tc == currentTime - o.created
    IN /\ SweepState(o, currentTime) = o.state
       /\ \/ o.state \in {"trExpired", "trOffline"} /\ td > TTL
          \/ o.state = "trPending" /\ tc > deadlineTTL

\* the scan over the snapshot of the live map; busy = orders whose try-lock failed
SweepCheck ==
    /\ sweepPc = "idle"
    /\ m_transactions # {}
    /\ \E busy \in SUBSET m_transactions :
         LET txs == m_transactions \ busy
         IN /\ orders' = [id \in DOMAIN orders |->
                            IF id \in txs
                              THEN [orders[id] EXCEPT !.state = SweepState(orders[id], now)]
                              ELSE orders[id]]
            /\ forErase' = {id \in txs : SweepErases(orders[id], now)}
            /\ lastSweep' = IF observe
                               THEN [skipped |-> busy, time |-> now, erased |-> {},
                                     before |-> [id \in m_transactions |-> orders[id]]]
                               ELSE NoSweep
    /\ sweepPc' = "erase"
    /\ UNCHANGED <<nextId, calls, m_transactions, m_historicTransactions, m_utxosDict, m_feeUtxos,
                   now, pc, loc, confVars, lastLock, msgVars, idRuns, walletVars, utilVars,
                   sessionVars>>

\* lines 3004-3011
SweepErase ==
    /\ sweepPc = "erase"
    /\ m_transactions' = m_transactions \ forErase
    /\ forErase' = {}
    /\ sweepPc' = "idle"
    /\ orders' = Release(orders, m_transactions', m_historicTransactions, pc, loc)
    /\ lastSweep' = IF observe
                       THEN [skipped |-> {}, time |-> lastSweep.time,
                             erased |-> forErase \cap m_transactions,
                             before |-> [id \in forErase \cap m_transactions |->
                                            lastSweep.before[id]]]
                       ELSE NoSweep
    /\ UNCHANGED <<nextId, calls, m_historicTransactions, m_utxosDict, m_feeUtxos, now, pc, loc,
                   confVars, lastLock, msgVars, idRuns, walletVars, utilVars, sessionVars>>

\* the relay check taking the orders of other traders as well
RebroadcastAnyOrder(o, currentTime) ==
    \/ o.state = "trNew" /\ currentTime - o.txtime >= NewRelayAge
    \/ o.state = "trPending" /\ currentTime - o.txtime >= PendingRelayAge

\* checkAndRelayPendingOrders: which orders are rebroadcast (updateTimestamp)
Rebroadcast(o, currentTime) ==
    /\ o.local
    /\ \/ o.state = "trNew" /\ currentTime - o.txtime >= NewRelayAge
       \/ o.state = "trPending" /\ currentTime - o.txtime >= PendingRelayAge

\* lines 2675-2696 and 2704-2725: the service nodes the order may be given to
OtherNodes(o) ==
    findShuffledNodesWithService(snodes, {o.fromCurrency, o.toCurrency},
                                 o.excludedNodes \cup {o.sPubKey})

\* the order looks for another service node: a New order always, a Pending order
\* when its node lacks one of its currencies
PicksNode(o, currentTime) ==
    /\ Rebroadcast(o, currentTime)
    /\ \/ o.state = "trNew"
       \/ ~hasNodeService(snodes, o.sPubKey, o.fromCurrency)
       \/ ~hasNodeService(snodes, o.sPubKey, o.toCurrency)
    /\ OtherNodes(o) # {}

\* the relay check that gives a New order to another node without excluding the old one
RelayOrderForgetsOld(o, currentTime, snode) ==
    IF ~Rebroadcast(o, currentTime) THEN o
    ELSE IF PicksNode(o, currentTime)
      THEN [o EXCEPT !.sPubKey = snode, !.txtime = currentTime]
    ELSE [o EXCEPT !.txtime = currentTime]

\* lines 2668-2728 for one order; snode is the front of the shuffled list
RelayOrder(o, currentTime, snode) ==
    IF ~Rebroadcast(o, currentTime) THEN o
    ELSE IF PicksNode(o, currentTime)
      THEN [o EXCEPT !.excludedNodes = @ \cup {o.sPubKey}, !.sPubKey = snode,
                     !.txtime = currentTime]
    ELSE [o EXCEPT !.txtime = currentTime]

\* per order the node findNodeWithService returns, "" where none is looked for or found
RelayPicks ==
    {pick \in [m_transactions -> DOMAIN snodes \cup {""}] :
        \A id \in m_transactions :
            IF PicksNode(orders[id], now) THEN pick[id] \in OtherNodes(orders[id])
            ELSE pick[id] = ""}

CheckAndRelayPendingOrders ==
    /\ m_transactions # {}
    /\ relayRun.on \/ \E id \in m_transactions : Rebroadcast(orders[id], now)
    /\ \E pick \in RelayPicks :
         orders' = [id \in DOMAIN orders |->
                      IF id \in m_transactions THEN RelayOrder(orders[id], now, pick[id])
                      ELSE orders[id]]
    /\ relayRun' = IF relayRun.on
                     THEN [on |-> TRUE, flip |-> ~relayRun.flip,
                           sent |-> {id \in m_transactions : Rebroadcast(orders[id], now)}]
                     ELSE relayRun
    /\ UNCHANGED <<nextId, calls, m_transactions, m_historicTransactions, m_utxosDict, m_feeUtxos,
                   now, pc, loc, sweepPc, forErase, observe, requests, selRun, snodes,
                   depVars, trVars, lastVars, lastLock, msgVars, idRuns, extVars>>

Tick ==
    /\ now < MaxTime
    /\ now' = now + 1
    /\ UNCHANGED <<orders, nextId, calls, m_transactions, m_historicTransactions, m_utxosDict,
                   m_feeUtxos, pc, loc, sweepPc, forErase, aux>>

(***************************************************************************)
(* Specifications                                                          *)
(***************************************************************************)
vars == <<swapVars, aux>>

Init == InitSwap /\ InitRest /\ observe = FALSE /\ requests = AllRequests
InitObserved == InitSwap /\ InitRest /\ observe = TRUE /\ requests = AllRequests
InitStore == InitSwap /\ InitRest /\ observe = FALSE /\ requests = StoreRequests

\* two API threads creating, accepting and retiring orders
NextSwap ==
    \/ \E p \in Procs : CreateBegin(p)
    \/ \E p \in Procs : CreateUtxo(p)
    \/ \E p \in Procs : CreateInsert(p)
    \/ \E p \in Procs : AcceptBegin(p)
    \/ \E p \in Procs : AcceptSet(p)
    \/ \E p \in Procs : AcceptValidate(p)
    \/ \E p \in Procs : AcceptUtxo(p)
    \/ \E p \in Procs : AcceptFinish(p)
    \/ \E p \in Procs : MoveBegin(p)
    \/ \E p \in Procs : MoveUnlock(p)
    \/ AppendTransaction

Spec == Init /\ [][NextSwap]_vars

\* one API thread and the timer worker, with the clock
StoreProcs == {"p1"}

\* the order store: orders are created, announced, retired, flushed and swept
NextStore ==
    \/ \E p \in StoreProcs : CreateBegin(p)
    \/ \E p \in StoreProcs : CreateUtxo(p)
    \/ \E p \in StoreProcs : CreateInsert(p)
    \/ \E p \in StoreProcs : MoveBegin(p)
    \/ \E p \in StoreProcs : MoveUnlock(p)
    \/ AppendTransaction
    \/ FlushCancelledOrders
    \/ ClearNonLocalOrders
    \/ SessionCancel
    \/ SweepCheck
    \/ SweepErase
    \/ Tick

SpecStore == InitStore /\ [][NextStore]_vars

\* the states of the orders: accepted, announced, swept and rebroadcast
NextState ==
    \/ \E p \in StoreProcs : CreateBegin(p)
    \/ \E p \in StoreProcs : CreateUtxo(p)
    \/ \E p \in StoreProcs : CreateInsert(p)
    \/ \E p \in StoreProcs : AcceptBegin(p)
    \/ \E p \in StoreProcs : AcceptSet(p)
    \/ \E p \in StoreProcs : AcceptValidate(p)
    \/ \E p \in StoreProcs : AcceptUtxo(p)
    \/ \E p \in StoreProcs : AcceptFinish(p)
    \/ AppendTransaction
    \/ SessionPending
    \/ SweepCheck
    \/ SweepErase
    \/ CheckAndRelayPendingOrders
    \/ Tick

SpecState == InitStore /\ [][NextState]_vars

\* the expiry sweep observed: orders are created, announced, rebroadcast and swept
InitSweep == InitSwap /\ InitRest /\ observe = TRUE /\ requests = StoreRequests

NextSweep ==
    \/ \E p \in StoreProcs : CreateBegin(p)
    \/ \E p \in StoreProcs : CreateUtxo(p)
    \/ \E p \in StoreProcs : CreateInsert(p)
    \/ \E p \in StoreProcs : Return(p)
    \/ AppendTransaction
    \/ SessionPending
    \/ SweepCheck
    \/ SweepErase
    \/ CheckAndRelayPendingOrders
    \/ Tick

SpecSweep == InitSweep /\ [][NextSweep]_vars

\* two API threads creating orders, the callers keeping the results
NextCreate ==
    \/ \E p \in Procs : CreateBegin(p)
    \/ \E p \in Procs : CreateUtxo(p)
    \/ \E p \in Procs : CreateInsert(p)
    \/ \E p \in Procs : MoveBegin(p)
    \/ \E p \in Procs : MoveUnlock(p)
    \/ \E p \in Procs : Return(p)

SpecCreate == InitObserved /\ [][NextCreate]_vars

\* two API threads accepting announced orders, the callers keeping the results
NextAccept ==
    \/ \E p \in Procs : AcceptBegin(p)
    \/ \E p \in Procs : AcceptSet(p)
    \/ \E p \in Procs : AcceptValidate(p)
    \/ \E p \in Procs : AcceptUtxo(p)
    \/ \E p \in Procs : AcceptFinish(p)
    \/ \E p \in Procs : Return(p)
    \/ AppendTransaction

SpecAccept == InitObserved /\ [][NextAccept]_vars

\* the lock manager called directly: lockCoins, unlockCoins, getLockedUtxos
lockRest == <<orders, nextId, calls, m_transactions, m_historicTransactions, m_feeUtxos,
              now, pc, loc, sweepPc, forErase, confVars, msgVars, idRuns, extVars>>

LockCoinsCall ==
    /\ \E token \in Cur, utxos \in SUBSET AllUtxos :
         LET r == lockCoins(m_utxosDict, token, utxos)
         IN /\ m_utxosDict' = r.dict
            /\ lastLock' = [op |-> "lock", token |-> token, utxos |-> utxos,
                            before |-> m_utxosDict, ok |-> r.ok]
    /\ UNCHANGED lockRest

UnlockCoinsCall ==
    /\ \E token \in Cur, utxos \in SUBSET AllUtxos :
         /\ m_utxosDict' = unlockCoins(m_utxosDict, token, utxos)
         /\ lastLock' = [op |-> "unlock", token |-> token, utxos |-> utxos,
                         before |-> m_utxosDict, ok |-> TRUE]
    /\ UNCHANGED lockRest

GetLockedUtxosCall ==
    /\ \E token \in Cur :
         /\ m_utxosDict' = getLockedUtxosDict(m_utxosDict, token)
         /\ lastLock' = [op |-> "get", token |-> token, utxos |-> LockedOf(m_utxosDict, token),
                         before |-> m_utxosDict, ok |-> TRUE]
    /\ UNCHANGED lockRest

NextLock ==
    \/ LockCoinsCall
    \/ UnlockCoinsCall
    \/ GetLockedUtxosCall

SpecLock == Init /\ [][NextLock]_vars

(***************************************************************************)
(* Inbound messages: App::onMessageReceived, App::onBroadcastReceived       *)
(***************************************************************************)
msgRest == <<swapVars, confVars, lastLock, idRuns, extVars>>

\* App::clearMempool, called with m_messagesLock held
clearMempool(known) == IF Cardinality(known) * 64 > maxMBytes THEN {} ELSE known

\* App::addToKnown
addToKnown(known, hash) == clearMempool(known) \cup {hash}

\* the seen-set was cleared by the call
Cleared(known) == known # {} /\ clearMempool(known) = {}

\* App::isKnownMessage
isKnownMessage(known, message) == Hash(message) \in known

\* App::onMessageReceived up to line 624: isKnownMessage is one critical
\* section of m_messagesLock, addToKnown is another
OnMessageReceived(t) ==
    /\ msgPc[t] = "idle"
    /\ \E message \in Messages :
         IF isKnownMessage(m_processedMessages, message)
           THEN UNCHANGED <<msgPc, msgLoc>>
           ELSE /\ msgPc' = [msgPc EXCEPT ![t] = "add"]
                /\ msgLoc' = [msgLoc EXCEPT ![t] =
                                [entry |-> "message", message |-> message, stale |-> FALSE]]
    /\ UNCHANGED <<m_processedMessages, handled, msgRest>>

\* App::onBroadcastReceived up to line 713
OnBroadcastReceived(t) ==
    /\ msgPc[t] = "idle"
    /\ \E message \in Messages :
         IF isKnownMessage(m_processedMessages, message)
           THEN UNCHANGED <<msgPc, msgLoc>>
           ELSE /\ msgPc' = [msgPc EXCEPT ![t] = "add"]
                /\ msgLoc' = [msgLoc EXCEPT ![t] =
                                [entry |-> "broadcast", message |-> message, stale |-> FALSE]]
    /\ UNCHANGED <<m_processedMessages, handled, msgRest>>

\* lines 626 / 715: addToKnown, another critical section of m_messagesLock
AddToKnown(t) ==
    /\ msgPc[t] = "add"
    /\ m_processedMessages' = addToKnown(m_processedMessages, Hash(msgLoc[t].message))
    /\ IF Cleared(m_processedMessages)
         THEN /\ handled' = [h \in MessageHashes |-> 0]
              /\ msgLoc' = [u \in Procs |->
                              IF msgPc[u] = "process" THEN [msgLoc[u] EXCEPT !.stale = TRUE]
                              ELSE msgLoc[u]]
         ELSE UNCHANGED <<handled, msgLoc>>
    /\ msgPc' = [msgPc EXCEPT ![t] = "process"]
    /\ UNCHANGED msgRest

\* the rest of the handler: version, copyFrom, verify, the choice of the session
\* and ptr->processPacket(packet); delivered = all of them passed
ProcessPacket(t) ==
    /\ msgPc[t] = "process"
    /\ \E delivered \in BOOLEAN :
         LET h == Hash(msgLoc[t].message)
         IN handled' = IF delivered /\ ~msgLoc[t].stale /\ handled[h] < MaxHandled
                         THEN [handled EXCEPT ![h] = @ + 1]
                         ELSE handled
    /\ msgPc' = [msgPc EXCEPT ![t] = "idle"]
    /\ msgLoc' = [msgLoc EXCEPT ![t] = NoMsg]
    /\ UNCHANGED <<m_processedMessages, msgRest>>

\* App::Impl::onSend, line 561: the hash of an outgoing message is made known
OnSend ==
    /\ \E message \in Messages :
         /\ Hash(message) \notin m_processedMessages
         /\ m_processedMessages' = addToKnown(m_processedMessages, Hash(message))
    /\ IF Cleared(m_processedMessages)
         THEN /\ handled' = [h \in MessageHashes |-> 0]
              /\ msgLoc' = [u \in Procs |->
                              IF msgPc[u] = "process" THEN [msgLoc[u] EXCEPT !.stale = TRUE]
                              ELSE msgLoc[u]]
         ELSE UNCHANGED <<handled, msgLoc>>
    /\ UNCHANGED <<msgPc, msgRest>>

NextMsg ==
    \/ \E t \in Procs : OnMessageReceived(t)
    \/ \E t \in Procs : OnBroadcastReceived(t)
    \/ \E t \in Procs : AddToKnown(t)
    \/ \E t \in Procs : ProcessPacket(t)
    \/ OnSend

SpecMsg == Init /\ [][NextMsg]_vars

(***************************************************************************)
(* The order id of App::sendXBridgeTransaction, lines 1522-1542            *)
(***************************************************************************)
idRest == <<swapVars, confVars, lastLock, msgVars, extVars>>

\* the hashed locals of one run
IdBase ==
    [from |-> <<1>>, fromCurrency |-> "BLOCK", fromAmount |-> 2,
     to |-> <<2>>, toCurrency |-> "LTC", toAmount |-> 2,
     timestampValue |-> 1, blockHash |-> 1, firstUtxoSig |-> <<7>>]

\* the base values and, for each of the nine, a run that differs in it alone;
\* the last two differ in where two adjacent strings are cut
IdInputs ==
    {IdBase,
     [IdBase EXCEPT !.from = <<3>>],
     [IdBase EXCEPT !.fromCurrency = "LTC"],
     [IdBase EXCEPT !.fromAmount = 512],
     [IdBase EXCEPT !.to = <<3>>],
     [IdBase EXCEPT !.toCurrency = "BLOCK"],
     [IdBase EXCEPT !.toAmount = 512],
     [IdBase EXCEPT !.timestampValue = 2],
     [IdBase EXCEPT !.blockHash = 2],
     [IdBase EXCEPT !.firstUtxoSig = <<8>>],
     [IdBase EXCEPT !.from = <<1, 1>>, !.fromCurrency = ""],
     [IdBase EXCEPT !.from = <<>>, !.fromCurrency = "BLOCK"]}

\* what a run has besides: the service node, the signatures of the other
\* selected utxos, the generated M and X keys
IdLocals ==
    [in : IdInputs, sPubKey : {1, 2}, otherSigs : {<<>>, <<9>>}, mPubKey : {1, 2}, xPubKey : {1, 2}]

\* ss << from << fromCurrency << fromAmount << to << toCurrency << toAmount
\*    << timestampValue << blockHash << firstUtxoSig; id = ss.GetHash()
makeOrderId(from, fromCurrency, fromAmount, to, toCurrency, toAmount, timestampValue, blockHash, firstUtxoSig) ==
    Hash(SerBytes(from) \o SerBytes(Text(fromCurrency)) \o SerU64(fromAmount)
         \o SerBytes(to) \o SerBytes(Text(toCurrency)) \o SerU64(toAmount)
         \o SerU64(timestampValue) \o SerU256(blockHash) \o SerBytes(firstUtxoSig))

\* the id with the service node key hashed as well
OrderIdWithSnode(l) ==
    Hash(SerBytes(l.in.from) \o SerBytes(Text(l.in.fromCurrency)) \o SerU64(l.in.fromAmount)
         \o SerBytes(l.in.to) \o SerBytes(Text(l.in.toCurrency)) \o SerU64(l.in.toAmount)
         \o SerU64(l.in.timestampValue) \o SerU256(l.in.blockHash)
         \o SerBytes(l.in.firstUtxoSig) \o SerU64(l.sPubKey))

\* the id of a run from its locals; outputsForUse.at(0).signature is hashed
OrderId(l) ==
    LET outputsForUse == <<l.in.firstUtxoSig>> \o (IF l.otherSigs = <<>> THEN <<>> ELSE <<l.otherSigs>>)
    IN makeOrderId(l.in.from, l.in.fromCurrency, l.in.fromAmount, l.in.to, l.in.toCurrency,
                   l.in.toAmount, l.in.timestampValue, l.in.blockHash, outputsForUse[1])

\* one run of createOrder up to the id
ComputeOrderId(r) ==
    /\ ~idRuns[r].computed
    /\ \E l \in IdLocals :
         idRuns' = [idRuns EXCEPT ![r] = [computed |-> TRUE, locals |-> l, id |-> OrderId(l)]]
    /\ UNCHANGED idRest

NextId == \E r \in Runs : ComputeOrderId(r)

SpecId == Init /\ [][NextId]_vars

(***************************************************************************)
(* The connector registry and the wallet refresh                           *)
(* (App::updateActiveWallets), with API threads that look a connector up   *)
(* and later call updateConnector                                          *)
(***************************************************************************)
walletRest == <<orders, nextId, calls, m_transactions, m_historicTransactions, m_utxosDict,
                m_feeUtxos, pc, loc, sweepPc, forErase, confVars, lastLock, msgVars, idRuns,
                utilVars, lastSweep, sessionVars>>

SetRegistry(r) ==
    /\ m_connectors' = r.list
    /\ m_connectorCurrencyMap' = r.cur
    /\ m_connectorAddressMap' = r.addr

\* the record of an addConnector / removeConnector call
AddCall(conn) ==
    [op |-> "add", conn |-> conn, currency |-> conn.currency,
     addrs |-> AddrsOf(Registry, conn.currency), k |-> 1 - lastReg.k]
RemoveCall(currency) ==
    [op |-> "remove", conn |-> NoConn, currency |-> currency,
     addrs |-> AddrsOf(Registry, currency), k |-> 1 - lastReg.k]

\* where the refresh is, given what is left to do
Phase(f) ==
    IF f.toRemove # {} THEN "remove"
    ELSE IF f.wallets # <<>> THEN "eval"
    ELSE IF f.conns # {} THEN "probe"
    ELSE IF f.validConnections # <<>> THEN "add"
    ELSE IF f.badConnections # <<>> THEN "bad"
    ELSE "done"
At(f) == [f EXCEPT !.pc = Phase(f)]

\* lines 899-925 and 933-938: the single-flight flag, the wallets of the
\* exchange list, the currencies to disconnect, the copy of m_badWallets
UpdateBegin ==
    /\ ~m_updatingWallets
    /\ upd.gen < MaxRefresh
    /\ m_updatingWallets' = TRUE
    /\ \E wallets \in WalletLists :
         upd' = At([Upd0 EXCEPT !.gen = upd.gen + 1, !.wallets = wallets,
                                !.toRemove = DOMAIN m_connectorCurrencyMap \ Range(wallets),
                                !.badWallets = m_badWallets])
    /\ UNCHANGED <<m_connectors, m_connectorCurrencyMap, m_connectorAddressMap, m_badWallets,
                   connHeld, lastReg, walletSettings, now, walletRest>>

\* lines 927-928
UpdateRemove ==
    /\ upd.pc = "remove"
    /\ \E currency \in upd.toRemove :
         /\ SetRegistry(removeConnector(Registry, currency))
         /\ lastReg' = RemoveCall(currency)
         /\ upd' = At([upd EXCEPT !.toRemove = @ \ {currency}])
    /\ UNCHANGED <<m_badWallets, m_updatingWallets, connHeld, walletSettings, now, walletRest>>

\* Quarantined with the wait still on when exactly BadWalletWait has passed
QuarantinedLonger(f, wallet, currentTime) ==
    /\ wallet \in DOMAIN f.badWallets
    /\ currentTime - f.badWallets[wallet] <= BadWalletWait

\* the wallet is in the copy of m_badWallets and its wait is not over
Quarantined(f, wallet, currentTime) ==
    /\ wallet \in DOMAIN f.badWallets
    /\ currentTime - f.badWallets[wallet] < BadWalletWait

\* lines 940-1055, one wallet of the list
UpdateEvaluate ==
    /\ upd.pc = "eval"
    /\ \E wp \in walletSettings :
         LET wallet == Head(upd.wallets)
             res == checkWallet(wp)
             f0 == [upd EXCEPT !.wallets = Tail(@)]
         IN IF Quarantined(upd, wallet, now)
              THEN /\ wp = WalletParam0
                   /\ upd' = At([f0 EXCEPT !.lastEval =
                                     [currency |-> wallet, wp |-> wp, res |-> "quarantined",
                                      erased |-> FALSE]])
                   /\ UNCHANGED <<m_connectors, m_connectorCurrencyMap, m_connectorAddressMap,
                                  m_badWallets, lastReg>>
              ELSE /\ m_badWallets' = [c \in DOMAIN m_badWallets \ {wallet} |-> m_badWallets[c]]
                   /\ IF res \in {"admitted", "unsupported"}
                        THEN UNCHANGED <<m_connectors, m_connectorCurrencyMap,
                                         m_connectorAddressMap, lastReg>>
                        ELSE /\ SetRegistry(removeConnector(Registry, wallet))
                             /\ lastReg' = RemoveCall(wallet)
                   /\ upd' = At([f0 EXCEPT
                                    !.lastEval = [currency |-> wallet, wp |-> wp, res |-> res,
                                                  erased |-> wallet \in DOMAIN upd.badWallets],
                                    !.conns = IF res = "admitted"
                                                THEN @ \cup {[currency |-> wallet, gen |-> upd.gen]}
                                                ELSE @])
    /\ UNCHANGED <<m_updatingWallets, connHeld, walletSettings, now, walletRest>>

\* lines 1098-1118: one connection check; ok = conn->init()
UpdateProbe ==
    /\ upd.pc = "probe"
    /\ \E conn \in upd.conns, ok \in BOOLEAN :
         upd' = At([upd EXCEPT !.conns = @ \ {conn},
                               !.validConnections = IF ok THEN Append(@, conn) ELSE @,
                               !.badConnections = IF ok THEN @ ELSE Append(@, conn)])
    /\ UNCHANGED <<m_connectors, m_connectorCurrencyMap, m_connectorAddressMap, m_badWallets,
                   m_updatingWallets, connHeld, lastReg, walletSettings, now, walletRest>>

\* lines 1142-1146, one valid connection
UpdateAdd ==
    /\ upd.pc = "add"
    /\ LET conn == Head(upd.validConnections)
       IN /\ SetRegistry(addConnector(Registry, conn))
          /\ lastReg' = AddCall(conn)
          /\ upd' = At([upd EXCEPT !.validConnections = Tail(@),
                                   !.validWallets = @ \cup {conn.currency}])
    /\ UNCHANGED <<m_badWallets, m_updatingWallets, connHeld, walletSettings, now, walletRest>>

\* lines 1149-1157, one bad connection
UpdateBad ==
    /\ upd.pc = "bad"
    /\ LET conn == Head(upd.badConnections)
       IN /\ SetRegistry(removeConnector(Registry, conn.currency))
          /\ lastReg' = RemoveCall(conn.currency)
          /\ m_badWallets' = [c \in DOMAIN m_badWallets \cup {conn.currency} |->
                                IF c = conn.currency THEN now ELSE m_badWallets[c]]
          /\ upd' = At([upd EXCEPT !.badConnections = Tail(@)])
    /\ UNCHANGED <<m_updatingWallets, connHeld, walletSettings, now, walletRest>>

\* lines 1161-1168: loadWallets(validWallets), the flag is reset
UpdateDone ==
    /\ upd.pc = "done"
    /\ m_updatingWallets' = FALSE
    /\ upd' = [Upd0 EXCEPT !.gen = upd.gen]
    /\ UNCHANGED <<m_connectors, m_connectorCurrencyMap, m_connectorAddressMap, m_badWallets,
                   connHeld, lastReg, walletSettings, now, walletRest>>

\* an API thread looks the connector of a currency up (connectorByCurrency in
\* sendXBridgeTransaction and acceptXBridgeTransaction)
HoldConnector(p) ==
    /\ connHeld[p] = NoHeld
    /\ \E currency \in Cur :
         /\ connectorByCurrency(Registry, currency) # NoConn
         /\ connHeld' = [connHeld EXCEPT ![p] =
                           [conn |-> connectorByCurrency(Registry, currency), key |-> currency]]
    /\ UNCHANGED <<m_connectors, m_connectorCurrencyMap, m_connectorAddressMap, m_badWallets,
                   m_updatingWallets, upd, lastReg, walletSettings, now, walletRest>>

\* lines 1587-1588 / 1962-1963: updateConnector with the connector looked up
UpdateConnector(p) ==
    /\ connHeld[p] # NoHeld
    /\ \E addr \in Addrs :
         SetRegistry(updateConnector(Registry, connHeld[p].conn, addr, connHeld[p].key))
    /\ connHeld' = [connHeld EXCEPT ![p] = NoHeld]
    /\ UNCHANGED <<m_badWallets, m_updatingWallets, upd, lastReg, walletSettings, now, walletRest>>

\* the registry under the refresh and an API thread
NextRegistry ==
    \/ UpdateBegin
    \/ UpdateRemove
    \/ UpdateEvaluate
    \/ UpdateProbe
    \/ UpdateAdd
    \/ UpdateBad
    \/ UpdateDone
    \/ \E p \in StoreProcs : HoldConnector(p)
    \/ \E p \in StoreProcs : UpdateConnector(p)

SpecRegistry == Init /\ [][NextRegistry]_vars

\* the refresh and the clock
NextQuarantine ==
    \/ UpdateBegin
    \/ UpdateRemove
    \/ UpdateEvaluate
    \/ UpdateProbe
    \/ UpdateAdd
    \/ UpdateBad
    \/ UpdateDone
    \/ Tick

SpecQuarantine == Init /\ [][NextQuarantine]_vars

\* the refresh over every setting of WalletParams
InitAdmit ==
    /\ InitSwap /\ InitExt
    /\ walletSettings = WalletParams
    /\ coinRun = NoCoin
    /\ knownRun = NoKnown
    /\ observe = FALSE
    /\ requests = AllRequests

NextAdmit ==
    \/ UpdateBegin
    \/ UpdateRemove
    \/ UpdateEvaluate
    \/ UpdateProbe
    \/ UpdateAdd
    \/ UpdateBad
    \/ UpdateDone

SpecAdmit == InitAdmit /\ [][NextAdmit]_vars

(***************************************************************************)
(* BCH signature hash (xbridgewalletconnectorbch.cpp): SigHashType,         *)
(* SignatureHash, createRefundTransaction, createPaymentTransaction        *)
(***************************************************************************)
bchRest == <<swapVars, confVars, lastLock, msgVars, idRuns, walletVars, payloadRun, coinRun, knownRun, lastSweep, sessionVars>>

\* bitwise operations on the low n bits of a and b
RECURSIVE BitOp(_, _, _, _)
BitOp(op, a, b, n) ==
    IF n = 0 THEN 0
    ELSE LET x == a % 2
             y == b % 2
             z == IF op = "and" THEN x * y
                  ELSE IF op = "or" THEN (IF x + y > 0 THEN 1 ELSE 0)
                  ELSE (x + y) % 2
         IN z + 2 * BitOp(op, a \div 2, b \div 2, n - 1)

SIGHASH_ALL == 1
SIGHASH_FORKID == 64
SIGHASH_ANYONECANPAY == 128

\* class SigHashType: sigHash is a uint32_t, kept as two 16-bit halves
SigHashType(sigHashIn) == ToU32(sigHashIn)
\* (sigHash & ~SIGHASH_FORKID) | SIGHASH_FORKID
withForkId(s) ==
    [s EXCEPT !.lo = BitOp("or", BitOp("and", s.lo, (Half - 1) - SIGHASH_FORKID, 16),
                           SIGHASH_FORKID, 16)]
\* withForkValue without the low byte of the type
withForkValueDropsType(s, forkId) ==
    [hi |-> (forkId \div 256) % Half, lo |-> (forkId % 256) * 256]
\* (forkId << 8) | (sigHash & 0xff)
withForkValue(s, forkId) ==
    [hi |-> (forkId \div 256) % Half, lo |-> (forkId % 256) * 256 + (s.lo % 256)]
\* sigHash >> 8
getForkValue(s) == s.hi * 256 + s.lo \div 256
getBaseType(s) == s.lo % 32
hasForkId(s) == BitOp("and", s.lo, SIGHASH_FORKID, 16) # 0
hasAnyoneCanPay(s) == BitOp("and", s.lo, SIGHASH_ANYONECANPAY, 16) # 0
getRawSigHashType(s) == s
\* uint8_t(v) of a uint32_t
U8(s) == s.lo % 256
\* ::Serialize(s, getRawSigHashType())
SerSigHashType(s) == <<s.lo % 256, s.lo \div 256, s.hi % 256, s.hi \div 256>>

\* the transaction to sign: one input, one output
SEQUENCE_FINAL == <<255, 255, 255, 255>>
SEQUENCE_FINAL_1 == <<254, 255, 255, 255>>
Prevout == SerU256(1) \o LE(0, 4)
BchTx(out, nSequence, lockTime) ==
    [nVersion |-> 1, prevout |-> Prevout, nSequence |-> nSequence, out |-> SerU64(out),
     nLockTime |-> lockTime]

\* lines 200-206: the type after the replay protection rewriting
ReplayProtected(sigHashType) ==
    withForkValue(sigHashType, BitOp("or", 16711680, BitOp("xor", getForkValue(sigHashType), 57005, 24), 24))

\* SignatureHash with nIn = 0: the type serialized into the preimage and the hash
SignatureHash(scriptCode, tx, sigHashType, amount) ==
    LET t == ReplayProtected(sigHashType)
        hashPrevouts == IF ~hasAnyoneCanPay(t) THEN Hash(tx.prevout) ELSE 0
        hashSequence == IF ~hasAnyoneCanPay(t) /\ getBaseType(t) \notin {2, 3}
                          THEN Hash(tx.nSequence) ELSE 0
        hashOutputs == IF getBaseType(t) \notin {2, 3} \/ getBaseType(t) = 3
                         THEN Hash(tx.out) ELSE 0
    IN IF hasForkId(t)
         THEN [type |-> t,
               hash |-> Hash(LE(tx.nVersion, 4) \o SerU256(hashPrevouts) \o SerU256(hashSequence)
                             \o tx.prevout \o SerBytes(scriptCode) \o SerU64(amount)
                             \o tx.nSequence \o SerU256(hashOutputs) \o LE(tx.nLockTime, 4)
                             \o SerSigHashType(t))]
         ELSE [type |-> t, hash |-> 0]

BchAmounts == 1..5
BchLockTimes == {0, 1, 600000}
InnerScripts == {<<1>>, <<2, 3>>, <<4, 5, 6>>}
\* m_cp.sign: a signature of the hash
Sign(hash) == <<48, hash % 256, hash \div 256>>

\* the locals of one run of createRefundTransaction / createPaymentTransaction
SignRun(fn, inner, tx, amount, ok) ==
    LET sigHashType == withForkId(SigHashType(SIGHASH_ALL))
        sh == SignatureHash(inner, tx, sigHashType, amount)
    IN [computed |-> TRUE, fn |-> fn, tx |-> tx, inner |-> inner, sigHashType |-> sigHashType,
        preimageType |-> sh.type, hash |-> sh.hash, signed |-> ok,
        signature |-> IF ok THEN Append(Sign(sh.hash), U8(getRawSigHashType(sigHashType)))
                      ELSE <<>>]

\* BchWalletConnector::createRefundTransaction up to line 859
CreateRefundTransaction ==
    /\ \E amount \in BchAmounts, lockTime \in BchLockTimes, inner \in InnerScripts,
          ok \in BOOLEAN :
         LET sequence == IF lockTime > 0 THEN SEQUENCE_FINAL_1 ELSE SEQUENCE_FINAL
         IN sigRun' = SignRun("refund", inner, BchTx(amount, sequence, lockTime), amount, ok)
    /\ UNCHANGED bchRest

\* BchWalletConnector::createPaymentTransaction up to line 921
CreatePaymentTransaction ==
    /\ \E amount \in BchAmounts, inner \in InnerScripts, ok \in BOOLEAN :
         sigRun' = SignRun("payment", inner, BchTx(amount, SEQUENCE_FINAL, 0), amount, ok)
    /\ UNCHANGED bchRest

NextBch ==
    \/ CreateRefundTransaction
    \/ CreatePaymentTransaction

SpecBch == Init /\ [][NextBch]_vars

(***************************************************************************)
(* The fee payload of App::acceptXBridgeTransaction, lines 1774-1797        *)
(***************************************************************************)
payloadRest == <<swapVars, confVars, lastLock, msgVars, idRuns, walletVars, sigRun, coinRun, knownRun, lastSweep, sessionVars>>

\* policy: the bytes a data carrier output may hold (-datacarriersize)
DataCarrierSizes == {83, 163}

\* the decimal digits of a number, as characters
RECURSIVE Digits(_)
Digits(n) == IF n < 10 THEN <<48 + n>> ELSE Append(Digits(n \div 10), 48 + (n % 10))

\* json_spirit values: a string or a number
JStr(chars) == [str |-> TRUE, chars |-> chars]
JNum(n) == [str |-> FALSE, chars |-> Digits(n)]
WriteValue(v) == IF v.str THEN <<34>> \o v.chars \o <<34>> ELSE v.chars

\* write_string of an array: [v1,v2,...]
RECURSIVE WriteElems(_, _)
WriteElems(arr, i) ==
    IF i > Len(arr) THEN <<>>
    ELSE (IF i > 1 THEN <<44>> ELSE <<>>) \o WriteValue(arr[i]) \o WriteElems(arr, i + 1)
write_string(arr) == <<91>> \o WriteElems(arr, 1) \o <<93>>

\* a - b in size_t: the difference, or the wrap-around 2^64 - v
SubSizeT(a, b) ==
    IF a >= b THEN [wrapped |-> FALSE, v |-> a - b] ELSE [wrapped |-> TRUE, v |-> b - a]

\* a string of n characters: a currency name, the hex of an id
Chars(n, first, period) == [i \in 1..n |-> first + (i % period)]
IdLengths == {0, 16, 64, 70}
CurrencyLengths == {3, 50, 100}
PayloadAmounts == {1, 2000000000}

\* lines 1774-1797
FeePayload(nMaxDatacarrierBytes, id, fromCurrency, fromAmount, toCurrency, toAmount, priorState) ==
    LET maxBytes == nMaxDatacarrierBytes - 3
        rest == <<JStr(fromCurrency), JNum(fromAmount), JStr(toCurrency), JNum(toAmount)>>
        strInfo0 == write_string(<<JStr(<<>>)>> \o rest)
        truncate == Len(strInfo0) + Len(id) > maxBytes
        leftOver == SubSizeT(maxBytes, Len(strInfo0))
        \* orderId.erase(leftOver, npos) throws std::out_of_range when leftOver > size()
        thrown == truncate /\ (leftOver.wrapped \/ leftOver.v > Len(id))
        orderId == IF truncate /\ ~thrown THEN SubSeq(id, 1, leftOver.v) ELSE id
        strInfo == write_string(<<JStr(orderId)>> \o rest)
    IN [computed |-> TRUE, maxBytes |-> maxBytes, id |-> id, overhead |-> strInfo0,
        truncated |-> truncate, wrapped |-> truncate /\ leftOver.wrapped,
        res |-> IF thrown THEN "out_of_range"
                ELSE IF Len(strInfo) > maxBytes THEN "INVALID_ONCHAIN_HISTORY"
                ELSE "emitted",
        orderId |-> IF thrown THEN <<>> ELSE orderId,
        strInfo |-> IF thrown THEN <<>> ELSE strInfo,
        prior |-> priorState,
        state |-> IF ~thrown /\ Len(strInfo) > maxBytes THEN priorState ELSE "trAccepting"]

\* acceptOrder builds the payload of the fee transaction of an order
BuildFeePayload ==
    /\ \E size \in DataCarrierSizes, n \in IdLengths, f \in CurrencyLengths,
          t \in CurrencyLengths, fromAmount \in PayloadAmounts,
          priorState \in {"trNew", "trPending"} :
         payloadRun' = FeePayload(size, Chars(n, 97, 6), Chars(f, 65, 26), fromAmount,
                                  Chars(t, 65, 26), 1, priorState)
    /\ UNCHANGED payloadRest

NextPayload == BuildFeePayload

SpecPayload == Init /\ [][NextPayload]_vars

----------------------------------------------------------------------------
\* Coin strings (util/xutil.cpp)

coinRest == <<swapVars, confVars, lastLock, msgVars, idRuns, walletVars, sigRun, payloadRun, knownRun, lastSweep, sessionVars>>

\* the longest coin string of a run
MaxCoinLen == 9

\* xbridge::TransactionDescr::COIN
TransactionDescrCOIN == 1000000

\* '.', '0', '1'
CoinChars == {46, 48, 49}
CoinStrings == UNION {[1..n -> CoinChars] : n \in 0..MaxCoinLen}

\* do { n++; i /= 10; } while (i > 1);
RECURSIVE SignificantDigitsLoop(_, _)
SignificantDigitsLoop(n, i) ==
    LET n2 == n + 1
        i2 == i \div 10
    IN IF i2 > 1 THEN SignificantDigitsLoop(n2, i2) ELSE n2

xBridgeSignificantDigits(amount) == SignificantDigitsLoop(0, amount)

\* one round of the loop over the characters: f (the point was seen), n (the
\* characters after it), j (the zeros at the end)
ValidCoinChar(st, c) ==
    IF ~st.f /\ c = 46 THEN [st EXCEPT !.f = TRUE]
    ELSE IF st.f THEN [st EXCEPT !.n = st.n + 1, !.j = IF c = 48 THEN st.j + 1 ELSE 0]
    ELSE st

RECURSIVE ValidCoinLoop(_, _, _)
ValidCoinLoop(coin, i, st) ==
    IF i > Len(coin) THEN st ELSE ValidCoinLoop(coin, i + 1, ValidCoinChar(st, coin[i]))

xBridgeValidCoin(coin) ==
    LET st == ValidCoinLoop(coin, 1, [f |-> FALSE, n |-> 0, j |-> 0])
    IN st.n - st.j <= xBridgeSignificantDigits(TransactionDescrCOIN)

\* a caller checks the string it was given
ValidCoin ==
    /\ ~coinRun.computed
    /\ coinRun' = [coinRun EXCEPT !.computed = TRUE, !.valid = xBridgeValidCoin(coinRun.coin)]
    /\ UNCHANGED coinRest

InitCoin ==
    /\ InitSwap /\ InitExt
    /\ walletSettings = BasicParams
    /\ observe = FALSE
    /\ requests = AllRequests
    /\ \E s \in CoinStrings : coinRun = [coin |-> s, computed |-> FALSE, valid |-> FALSE]
    /\ knownRun = NoKnown

NextCoin == ValidCoin

SpecCoin == InitCoin /\ [][NextCoin]_vars

----------------------------------------------------------------------------
\* The seen-set by its size (App::addToKnown, App::clearMempool)

knownRest == <<swapVars, confVars, lastLock, msgVars, idRuns, walletVars, sigRun, payloadRun,
               coinRun, lastSweep, sessionVars>>

\* single calls are followed up to this size and again near the threshold
MaxKnown == 3
KnownSlack == 2

\* -maxmempoolxbridge: none, 1, 2, the default, and two values whose product with
\* 1000000 does not fit 32 bits
MempoolSettings == {0, 1, 2, 128, 4295, 8590}

\* static_cast<unsigned int>(gArgs.GetArg("-maxmempoolxbridge", 128)) * 1000000
MaxMBytesOf(setting) == Mul32(Mul32(ToU32(setting), 1000), 1000)

\* count * 64 > maxMBytes, count * 64 below 2^31
OverThreshold(count, setting) ==
    LET c == ToU32(count * 64)
        t == MaxMBytesOf(setting)
    IN c.hi > t.hi \/ (c.hi = t.hi /\ c.lo > t.lo)

\* the largest size that does not make clearMempool clear
KnownLimit(setting) ==
    LET t == MaxMBytesOf(setting) IN (t.hi * Half + t.lo) \div 64

\* addToKnown inserting the hash before clearMempool()
addToKnownSizeInsertsFirst(k, tracked, present) ==
    LET size1 == IF present THEN k.size ELSE k.size + 1
        clear == OverThreshold(size1, k.setting)
    IN [k EXCEPT !.size = IF clear THEN 0 ELSE size1,
                 !.has = ~clear /\ (tracked \/ k.has),
                 !.last = IF tracked THEN "tracked" ELSE "other",
                 !.before = k.size,
                 !.cleared = clear]

\* App::addToKnown on the size of the set: clearMempool(), then insert(hash).
\* tracked: the hash is the one the run follows; present: it is in the set
addToKnownSize(k, tracked, present) ==
    LET clear == OverThreshold(k.size, k.setting)
        size1 == IF clear THEN 0 ELSE k.size
        has1 == IF clear THEN FALSE ELSE k.has
        present1 == present /\ ~clear
    IN [k EXCEPT !.size = IF present1 THEN size1 ELSE size1 + 1,
                 !.has = tracked \/ has1,
                 !.last = IF tracked THEN "tracked" ELSE "other",
                 !.before = k.size,
                 !.cleared = clear]

\* one call of addToKnown
AddToKnownHash ==
    /\ knownRun.size < MaxKnown \/ knownRun.size >= KnownLimit(knownRun.setting) - KnownSlack
    /\ \E tracked \in BOOLEAN, present \in BOOLEAN :
         /\ present => IF tracked THEN knownRun.has
                       ELSE knownRun.size > (IF knownRun.has THEN 1 ELSE 0)
         /\ knownRun' = addToKnownSize(knownRun, tracked, present)
    /\ UNCHANGED knownRest

\* calls of addToKnown with hashes that are not in the set, none of which finds
\* the set over the threshold: the set grows to n hashes
AddToKnownMany ==
    /\ \E d \in 0..KnownSlack :
         LET n == KnownLimit(knownRun.setting) - d
         IN /\ n > knownRun.size + 1
            /\ ~OverThreshold(n - 1, knownRun.setting)
            /\ knownRun' = [knownRun EXCEPT !.size = n, !.last = "other",
                                            !.before = n - 1, !.cleared = FALSE]
    /\ UNCHANGED knownRest

InitKnown ==
    /\ InitSwap /\ InitExt
    /\ walletSettings = BasicParams
    /\ coinRun = NoCoin
    /\ observe = FALSE
    /\ requests = AllRequests
    /\ \E setting \in MempoolSettings : knownRun = [NoKnown EXCEPT !.setting = setting]

NextKnown ==
    \/ AddToKnownHash
    \/ AddToKnownMany

SpecKnown == InitKnown /\ [][NextKnown]_vars

----------------------------------------------------------------------------
\* Routing of inbound packets (App::onMessageReceived, App::Impl::getSession)

routeRest == <<swapVars, confVars, lastLock, msgPc, msgLoc, idRuns, m_connectors,
               m_connectorCurrencyMap, m_connectorAddressMap, m_badWallets, m_updatingWallets,
               upd, connHeld, lastReg, walletSettings, utilVars, lastSweep>>

\* sessions are made on demand up to this number
MaxSessions == 2

\* the addresses a new session may draw; one is also the address of a wallet,
\* one the key id of the service node
SessionAddrs == {"s1", "a1", "k1"}
\* the key id of the active service node, 20 bytes
SnodeKeyId == "k1"
\* the 20-byte destinations of the packets
RouteIds == {"s1", "a1", "k1", "x1"}

\* the packet checks of lines 628-645: the first that fails, or ok
PacketChecks == {"version", "copyFrom", "verify", "ok"}

\* the bytes of a message: its version, then the signature of its body
XBRIDGE_PROTOCOL_VERSION == 1
checkXBridgePacketVersion(message) == message[1] = XBRIDGE_PROTOCOL_VERSION
copyFrom(message) == Len(message) = 2
verify(message) == message[2] = 2

\* the checks with the signature verification left out
PacketCheckSkipsVerify(message) ==
    IF ~checkXBridgePacketVersion(message) THEN "version"
    ELSE IF ~copyFrom(message) THEN "copyFrom"
    ELSE "ok"

\* lines 628-645 and 717-735: the first check the message fails
PacketCheck(message) ==
    IF ~checkXBridgePacketVersion(message) THEN "version"
    ELSE IF ~copyFrom(message) THEN "copyFrom"
    ELSE IF ~verify(message) THEN "verify"
    ELSE "ok"

\* the hashes of the messages, computed once
MessageHash == [m \in Messages |-> Hash(m)]

\* App::Impl::getSession(): the front session goes to the back; a new session is
\* made when it is working
getSession(q, map, working, fresh) ==
    LET front == Head(q)
        q1 == Append(Tail(q), front)
    IN IF working
         THEN [ptr |-> fresh, sessions |-> Append(q1, fresh),
               map |-> [a \in DOMAIN map \cup {fresh} |-> IF a = fresh THEN fresh ELSE map[a]]]
         ELSE [ptr |-> front, sessions |-> q1, map |-> map]

\* App::Impl::getSession(address)
getSessionByAddress(map, address) == IF address \in DOMAIN map THEN map[address] ELSE ""

\* lines 650-703 without the return after the direct session
RouteFallsThrough(q, map, connAddrs, id, started, hasActiveSn, working, fresh) ==
    LET direct == getSessionByAddress(map, id)
        first == IF direct # "" THEN <<direct>> ELSE <<>>
        w == getSession(q, map, working, fresh)
    IN IF id \in connAddrs
         THEN [processed |-> Append(first, w.ptr), sessions |-> w.sessions, map |-> w.map]
       ELSE IF started /\ hasActiveSn /\ SnodeKeyId = id
         THEN [processed |-> Append(first, w.ptr), sessions |-> w.sessions, map |-> w.map]
       ELSE [processed |-> first, sessions |-> q, map |-> map]

\* lines 650-703: the sessions whose processPacket is called, in order, and the
\* session containers afterwards
Route(q, map, connAddrs, id, started, hasActiveSn, working, fresh) ==
    LET direct == getSessionByAddress(map, id)
        w == getSession(q, map, working, fresh)
    IN IF direct # ""
         THEN [processed |-> <<direct>>, sessions |-> q, map |-> map]
       ELSE IF id \in connAddrs
         THEN [processed |-> <<w.ptr>>, sessions |-> w.sessions, map |-> w.map]
       ELSE IF started /\ hasActiveSn /\ SnodeKeyId = id
         THEN [processed |-> <<w.ptr>>, sessions |-> w.sessions, map |-> w.map]
       ELSE [processed |-> <<>>, sessions |-> q, map |-> map]

\* App::onMessageReceived, one call
RouteMessage ==
    /\ \E message \in Messages, id \in RouteIds,
          started \in BOOLEAN, hasActiveSn \in BOOLEAN, working \in BOOLEAN,
          fresh \in SessionAddrs :
         LET h == MessageHash[message]
             check == PacketCheck(message)
             known == h \in m_processedMessages
             r == IF known \/ check # "ok"
                    THEN [processed |-> <<>>, sessions |-> m_sessions,
                          map |-> m_sessionAddressMap]
                    ELSE Route(m_sessions, m_sessionAddressMap, DOMAIN m_connectorAddressMap,
                               id, started, hasActiveSn, working, fresh)
             base == IF Cleared(m_processedMessages) THEN [g \in MessageHashes |-> 0]
                     ELSE handled
         IN /\ working => (Len(m_sessions) < MaxSessions /\ fresh \notin DOMAIN m_sessionAddressMap)
            /\ ~working => fresh = "s1"
            /\ m_processedMessages' =
                   IF known THEN m_processedMessages ELSE addToKnown(m_processedMessages, h)
            /\ handled' = IF known THEN handled
                          ELSE IF r.processed # <<>> /\ base[h] < MaxHandled
                            THEN [base EXCEPT ![h] = @ + 1]
                          ELSE base
            /\ m_sessions' = r.sessions
            /\ m_sessionAddressMap' = r.map
            /\ routeRun' = [id |-> id, verified |-> check = "ok", known |-> known,
                            direct |-> id \in DOMAIN m_sessionAddressMap,
                            conn |-> id \in DOMAIN m_connectorAddressMap,
                            sn |-> started /\ hasActiveSn /\ SnodeKeyId = id,
                            processed |-> r.processed, entry |-> "message",
                            message |-> message]
    /\ UNCHANGED routeRest

\* App::onBroadcastReceived, one call
RouteBroadcast ==
    /\ \E message \in Messages, working \in BOOLEAN, fresh \in SessionAddrs :
         LET h == MessageHash[message]
             check == PacketCheck(message)
             known == h \in m_processedMessages
             w == getSession(m_sessions, m_sessionAddressMap, working, fresh)
             r == IF known \/ check # "ok"
                    THEN [processed |-> <<>>, sessions |-> m_sessions,
                          map |-> m_sessionAddressMap]
                    ELSE [processed |-> <<w.ptr>>, sessions |-> w.sessions, map |-> w.map]
             base == IF Cleared(m_processedMessages) THEN [g \in MessageHashes |-> 0]
                     ELSE handled
         IN /\ working => (Len(m_sessions) < MaxSessions /\ fresh \notin DOMAIN m_sessionAddressMap)
            /\ ~working => fresh = "s1"
            /\ m_processedMessages' =
                   IF known THEN m_processedMessages ELSE addToKnown(m_processedMessages, h)
            /\ handled' = IF known THEN handled
                          ELSE IF r.processed # <<>> /\ base[h] < MaxHandled
                            THEN [base EXCEPT ![h] = @ + 1]
                          ELSE base
            /\ m_sessions' = r.sessions
            /\ m_sessionAddressMap' = r.map
            /\ routeRun' = [NoRoute EXCEPT !.verified = check = "ok", !.known = known,
                                           !.processed = r.processed, !.entry = "broadcast",
                                           !.message = message]
    /\ UNCHANGED routeRest

\* the wallets registered before the packets arrive: none, or one whose address
\* a1 was entered by updateConnector
RouteConn == [currency |-> "BLOCK", gen |-> 1]
RouteRegistries ==
    LET empty == [list |-> <<>>, cur |-> <<>>, addr |-> <<>>]
    IN {empty, updateConnector(addConnector(empty, RouteConn), RouteConn, "a1", "BLOCK")}

InitRoute ==
    /\ InitSwap /\ InitExtBut
    /\ walletSettings = BasicParams
    /\ coinRun = NoCoin
    /\ knownRun = NoKnown
    /\ observe = FALSE
    /\ requests = AllRequests
    /\ \E r \in RouteRegistries :
         /\ m_connectors = r.list
         /\ m_connectorCurrencyMap = r.cur
         /\ m_connectorAddressMap = r.addr
    /\ \E a \in SessionAddrs :
         /\ m_sessions = <<a>>
         /\ m_sessionAddressMap = [b \in {a} |-> a]

NextRoute == RouteMessage

SpecRoute == InitRoute /\ [][NextRoute]_vars

(***************************************************************************)
(* The relay check over a service node list that changes                   *)
(***************************************************************************)
\* the lists the service node manager may hold: n1 runs with every currency, n2
\* is absent, runs with all or with one currency or has stopped
FullNode == [services |-> Cur \cup {LongCurrency}, running |-> TRUE]
SecondNodes ==
    {FullNode, [services |-> {"BLOCK"}, running |-> TRUE],
     [services |-> Cur, running |-> FALSE]}
SnodeLists == {OneSnode} \cup {("n1" :> FullNode) @@ ("n2" :> e) : e \in SecondNodes}

\* the calls that make orders in a run of the relay check
MaxRelayCalls == 2

\* the service node manager takes a new list
SnodeUpdate ==
    /\ \E list \in SnodeLists \ {snodes} : snodes' = list
    /\ UNCHANGED <<swapVars, observe, requests, selRun, relayRun, depVars, trVars, lastVars,
                   lastLock, msgVars, idRuns, extVars>>

InitRelay ==
    /\ InitSwap /\ InitExtCore /\ InitContainers
    /\ walletSettings = BasicParams /\ coinRun = NoCoin /\ knownRun = NoKnown
    /\ observe = FALSE
    /\ requests = StoreRequests
    /\ InitWatchers
    /\ relayRun = [NoRelay EXCEPT !.on = TRUE]

\* one API thread creating orders, the network announcing orders, the session
\* making them pending, the timer relaying them, service nodes coming and going
NextRelay ==
    \/ calls < MaxRelayCalls /\ \E p \in StoreProcs : CreateBegin(p)
    \/ \E p \in StoreProcs : CreateUtxo(p)
    \/ \E p \in StoreProcs : CreateInsert(p)
    \/ calls < MaxRelayCalls /\ AppendTransaction
    \/ SessionPending
    \/ SessionCancel
    \/ CheckAndRelayPendingOrders
    \/ SnodeUpdate
    \/ Tick

SpecRelay == InitRelay /\ [][NextRelay]_vars

\* a run of the relay check
RelayStep == relayRun' # relayRun

\* the service nodes another than the order's own and not excluded by it that run
\* and advertise both its currencies
Eligible(o) ==
    {n \in DOMAIN snodes :
        /\ n # o.sPubKey /\ n \notin o.excludedNodes
        /\ snodes[n].running
        /\ {o.fromCurrency, o.toCurrency} \subseteq snodes[n].services}

\* a local New order whose txtime is old enough for the relay check
StuckNew(id) ==
    /\ id \in m_transactions
    /\ orders[id].local /\ orders[id].state = "trNew"
    /\ now - orders[id].txtime >= NewRelayAge

\* C25: the relay check gives a local New order whose txtime is at least
\* NewRelayAge old to another eligible service node when there is one: sPubKey is
\* an eligible node other than before, the node before is in the exclusion set; it
\* leaves node and exclusion set alone when there is none; either way the txtime
\* is advanced to the time of the check and the order is sent again
C25_StuckNewOrder ==
    [][RelayStep =>
         \A id \in DOMAIN orders : StuckNew(id) =>
            /\ id \in relayRun'.sent
            /\ orders'[id].txtime = now /\ orders'[id].txtime > orders[id].txtime
            /\ IF Eligible(orders[id]) # {}
                 THEN /\ orders'[id].sPubKey \in Eligible(orders[id])
                      /\ orders'[id].sPubKey # orders[id].sPubKey
                      /\ orders'[id].excludedNodes =
                            orders[id].excludedNodes \cup {orders[id].sPubKey}
                 ELSE /\ orders'[id].sPubKey = orders[id].sPubKey
                      /\ orders'[id].excludedNodes = orders[id].excludedNodes]_vars

\* an order was moved to a second node and then, nobody else being eligible, kept there
C25_Witness ==
    \E id \in m_transactions :
        /\ orders[id].state = "trNew"
        /\ orders[id].sPubKey = "n2"
        /\ orders[id].excludedNodes = {"n1"}
        /\ id \in relayRun.sent
        /\ orders[id].txtime = now
        /\ orders[id].txtime - orders[id].created >= 2
        /\ Eligible(orders[id]) = {}

\* a local Pending order whose txtime is old enough for the relay check
StuckPending(id) ==
    /\ id \in m_transactions
    /\ orders[id].local /\ orders[id].state = "trPending"
    /\ now - orders[id].txtime >= PendingRelayAge

\* the order's node advertises both currencies of the order
NodeAdvertises(o) ==
    /\ o.sPubKey \in DOMAIN snodes
    /\ {o.fromCurrency, o.toCurrency} \subseteq snodes[o.sPubKey].services

\* C26: the relay check sends a local Pending order whose txtime is at least
\* PendingRelayAge old again with its txtime advanced, and leaves its service node
\* and exclusion set alone when the node advertises both currencies; an order that
\* is not local or neither New nor Pending is not sent and not changed
C26_StuckPendingOrder ==
    [][RelayStep =>
         \A id \in DOMAIN orders :
            /\ StuckPending(id) =>
                  /\ id \in relayRun'.sent
                  /\ orders'[id].txtime = now /\ orders'[id].txtime > orders[id].txtime
                  /\ NodeAdvertises(orders[id]) =>
                        /\ orders'[id].sPubKey = orders[id].sPubKey
                        /\ orders'[id].excludedNodes = orders[id].excludedNodes
            /\ (~orders[id].local \/ orders[id].state \notin {"trNew", "trPending"}) =>
                  /\ id \notin relayRun'.sent
                  /\ orders'[id] = orders[id]]_vars

\* a Pending order was sent again by a run that left an order of another trader alone
C26_Witness ==
    \E id, other \in m_transactions :
        /\ orders[id].local /\ orders[id].state = "trPending"
        /\ id \in relayRun.sent
        /\ orders[id].txtime = now /\ orders[id].created < now
        /\ ~orders[other].local
        /\ orders[other].txtime < now
        /\ other \notin relayRun.sent

(***************************************************************************)
(* The deposit watcher: App::Impl::checkWatchesOnDepositSpends             *)
(***************************************************************************)
depRest == <<swapVars, observe, requests, selRun, snodes, relayRun, trVars, lastVars, lastLock,
             msgVars, idRuns, extVars>>

MaxBlocks == 3
WatchIds == {1, 2}
\* blocks after the registration at which the lock time of the deposit expires
LockBlocks == 1

\* the chain of connFrom grows by a block, which takes the pay tx out of the mempool
NewBlock ==
    /\ blockCount < MaxBlocks
    /\ blockCount' = blockCount + 1
    /\ payTx' = IF payTx = InMempool THEN blockCount + 1 ELSE payTx
    /\ UNCHANGED <<m_watching, m_watchDeposits, xtx, watchPc, watches, watchRun, depRest>>

\* the counterparty sends the pay tx that spends the deposit
SendPayTx ==
    /\ payTx = NoPayTx
    /\ m_watchDeposits # {}
    /\ payTx' = InMempool
    /\ UNCHANGED <<m_watching, m_watchDeposits, xtx, watchPc, watches, blockCount, watchRun,
                   depRest>>

\* App::watchForSpentDeposit, called by the session once the deposits are made
watchForSpentDeposit(ids) ==
    /\ \E id \in ids \ DOMAIN xtx, hasSecret \in BOOLEAN :
         /\ m_watchDeposits' = m_watchDeposits \cup {id}
         /\ xtx' = xtx @@ (id :> [watching |-> FALSE, hasSecret |-> hasSecret,
                                    watchStartBlock |-> blockCount,
                                    watchCurrentBlock |-> blockCount,
                                    lockTime |-> blockCount + LockBlocks,
                                    otherPayTxId |-> FALSE, doneWatching |-> FALSE,
                                    redeemedCounterpartyDeposit |-> FALSE,
                                    checked |-> {}])
    /\ UNCHANGED <<m_watching, watchPc, watches, blockCount, payTx, watchRun, depRest>>

\* the outcomes of the calls one look at an order makes: the connector is there,
\* getBlockCount and getRawMempool succeed, the block at which getBlockHash or
\* getTransactionsInBlock fails (0: none), the two redemptions succeed
AllGood == [conn |-> TRUE, count |-> TRUE, mempool |-> TRUE, failAt |-> 0,
            refund |-> TRUE, redeem |-> TRUE]
WatchRpcs ==
    {[AllGood EXCEPT !.conn = FALSE], [AllGood EXCEPT !.count = FALSE]}
      \cup {[AllGood EXCEPT !.mempool = m[1], !.failAt = m[2], !.refund = refund,
                             !.redeem = redeem] :
               m \in {<<FALSE, 0>>} \cup ({TRUE} \X (0..MaxBlocks)),
               refund \in BOOLEAN, redeem \in BOOLEAN}

\* lines 2775-2799: the blocks from watchCurrentBlock to the tip are fetched one by
\* one and each is marked as processed when fetched; a failure ends the loop
ScanBlocks(x, count, rpc) ==
    LET failure == rpc.failAt \in x.watchCurrentBlock..count
        last == IF failure THEN rpc.failAt - 1 ELSE count
    IN [failure |-> failure,
        blocks |-> IF failure THEN {} ELSE x.watchCurrentBlock..last,
        watchCurrentBlock |-> IF last + 1 > x.watchCurrentBlock THEN last + 1
                              ELSE x.watchCurrentBlock]

\* lines 2767-2815: the search for the pay tx, for an order without the secret
LookForPayTx(x, count, rpc) ==
    IF x.watchStartBlock = count
      THEN IF ~rpc.mempool THEN [x EXCEPT !.watching = FALSE]
           ELSE IF payTx = InMempool
             THEN [x EXCEPT !.otherPayTxId = TRUE, !.doneWatching = TRUE]
           ELSE x
    ELSE LET scan == ScanBlocks(x, count, rpc)
             hit == {b \in scan.blocks : b = payTx}
             seen == IF hit = {} THEN scan.blocks ELSE {b \in scan.blocks : b <= payTx}
             y == [x EXCEPT !.watchCurrentBlock = scan.watchCurrentBlock,
                            !.checked = @ \cup seen]
         IN IF scan.failure THEN [y EXCEPT !.watching = FALSE]
            ELSE IF hit # {} THEN [y EXCEPT !.otherPayTxId = TRUE, !.doneWatching = TRUE]
            ELSE y

\* the look abandoned the order: an RPC call failed (setWatching(false); continue)
Abandoned(x, count, rpc) ==
    \/ ~rpc.count
    \/ /\ ~x.hasSecret
       /\ IF x.watchStartBlock = count THEN ~rpc.mempool
          ELSE ScanBlocks(x, count, rpc).failure

\* the look that unregisters an order whose pay tx was found
CheckDepositDoneWhenFound(x, count, rpc) ==
    IF x.watching \/ ~rpc.conn \/ ~rpc.count THEN [x |-> x, done |-> FALSE,
                                                  refunded |-> FALSE, redeemed |-> FALSE]
    ELSE LET y == IF x.hasSecret THEN x ELSE LookForPayTx(x, count, rpc)
         IN IF Abandoned(x, count, rpc)
              THEN [x |-> y, done |-> FALSE, refunded |-> FALSE, redeemed |-> FALSE]
            ELSE LET refunded == y.lockTime <= count /\ rpc.refund
                     redeemed == y.doneWatching /\ ~y.redeemedCounterpartyDeposit /\ rpc.redeem
                     done == y.doneWatching
                 IN [x |-> [y EXCEPT !.redeemedCounterpartyDeposit = @ \/ redeemed,
                                     !.doneWatching = @ \/ done],
                     done |-> done, refunded |-> refunded, redeemed |-> redeemed]

\* lines 2759-2845: one order of the copy is looked at; count is the height
\* getBlockCount gives
CheckDeposit(x, count, rpc) ==
    IF x.watching \/ ~rpc.conn \/ ~rpc.count THEN [x |-> x, done |-> FALSE,
                                                  refunded |-> FALSE, redeemed |-> FALSE]
    ELSE LET y == IF x.hasSecret THEN x ELSE LookForPayTx(x, count, rpc)
         IN IF Abandoned(x, count, rpc)
              THEN [x |-> y, done |-> FALSE, refunded |-> FALSE, redeemed |-> FALSE]
            ELSE LET refunded == y.lockTime <= count /\ rpc.refund
                     redeemed == y.doneWatching /\ ~y.redeemedCounterpartyDeposit /\ rpc.redeem
                     done == refunded \/ redeemed
                 IN [x |-> [y EXCEPT !.redeemedCounterpartyDeposit = @ \/ redeemed,
                                     !.doneWatching = @ \/ done],
                     done |-> done, refunded |-> refunded, redeemed |-> redeemed]

\* the ids of a set in the order of the map
RECURSIVE InOrder(_)
InOrder(S) ==
    IF S = {} THEN <<>>
    ELSE LET a == CHOOSE x \in S : \A y \in S : x <= y IN <<a>> \o InOrder(S \ {a})

\* the start of a run that does not look at m_watching
WatchBeginNoGuard(t) ==
    /\ watchPc[t] = "idle"
    /\ m_watching' = TRUE
    /\ watches' = [watches EXCEPT ![t] = InOrder(m_watchDeposits)]
    /\ watchPc' = [watchPc EXCEPT ![t] = "run"]
    /\ watchRun' = [watchRun EXCEPT !.skipped = FALSE]
    /\ UNCHANGED <<m_watchDeposits, xtx, blockCount, payTx, depRest>>

\* lines 2743-2750, under m_watchDepositsLocker
WatchBegin(t) ==
    /\ watchPc[t] = "idle"
    /\ IF m_watching
         THEN /\ watchRun' = [watchRun EXCEPT !.skipped = TRUE]
              /\ UNCHANGED <<m_watching, watches, watchPc>>
         ELSE /\ m_watching' = TRUE
              /\ watches' = [watches EXCEPT ![t] = InOrder(m_watchDeposits)]
              /\ watchPc' = [watchPc EXCEPT ![t] = "run"]
              /\ watchRun' = [watchRun EXCEPT !.skipped = FALSE]
    /\ UNCHANGED <<m_watchDeposits, xtx, blockCount, payTx, depRest>>

\* lines 2754-2845: the body of the loop for the next order of the copy
WatchItem(t, rpcs) ==
    /\ watchPc[t] = "run"
    /\ watches[t] # <<>>
    /\ \E rpc \in rpcs :
         LET id == Head(watches[t])
             r == CheckDeposit(xtx[id], blockCount, rpc)
         IN /\ xtx' = [xtx EXCEPT ![id] = r.x]
            /\ m_watchDeposits' = IF r.done THEN m_watchDeposits \ {id} ELSE m_watchDeposits
            /\ watchRun' = [id |-> id, refunded |-> r.refunded, redeemed |-> r.redeemed,
                            skipped |-> FALSE]
    /\ watches' = [watches EXCEPT ![t] = Tail(@)]
    /\ UNCHANGED <<m_watching, watchPc, blockCount, payTx, depRest>>

\* lines 2847-2850, under m_watchDepositsLocker
WatchEnd(t) ==
    /\ watchPc[t] = "run"
    /\ watches[t] = <<>>
    /\ m_watching' = FALSE
    /\ watchPc' = [watchPc EXCEPT ![t] = "idle"]
    /\ UNCHANGED <<m_watchDeposits, xtx, watches, blockCount, payTx, watchRun, depRest>>

NextWatch ==
    \/ NewBlock
    \/ SendPayTx
    \/ watchForSpentDeposit(WatchIds)
    \/ \E t \in WatchThreads : WatchBegin(t)
    \/ \E t \in WatchThreads : WatchItem(t, WatchRpcs)
    \/ \E t \in WatchThreads : WatchEnd(t)

SpecWatch == Init /\ [][NextWatch]_vars

\* the blocks the order has marked as processed
Marked(x) == x.watchStartBlock..(x.watchCurrentBlock - 1)

\* C28: while the pay tx is not found, every block an order has marked as
\* processed (watchCurrentBlock is past it) had its transactions given to
\* isUTXOSpentInTx, whatever RPC calls failed in the passes so far
C28_WatcherNoGaps ==
    \A id \in DOMAIN xtx :
        ~xtx[id].doneWatching => Marked(xtx[id]) \subseteq xtx[id].checked

\* the pay tx is in a block the order has marked and it was not found
PayTxMissed ==
    \E id \in DOMAIN xtx :
        /\ ~xtx[id].hasSecret /\ ~xtx[id].doneWatching
        /\ payTx \in Marked(xtx[id])

\* a pay tx in a marked block has always been found
C28_PayTxNeverMissed == ~PayTxMissed

\* the orders this step takes out of the watch set
Unwatched == m_watchDeposits \ m_watchDeposits'

\* this step is the look of a run at order id
LooksAt(id) ==
    \E t \in WatchThreads :
        /\ watchPc[t] = "run" /\ watches[t] # <<>> /\ Head(watches[t]) = id
        /\ watches'[t] = Tail(watches[t])

\* C29 as claimed: an order leaves the deposit watch set only in a look at it in
\* which both the refund of its own deposit and the redemption of the counterparty's
\* deposit succeeded
C29_UnwatchAfterBoth ==
    [][\A id \in Unwatched :
          LooksAt(id) /\ watchRun'.id = id /\ watchRun'.refunded /\ watchRun'.redeemed]_vars

\* C29 as amended: an order leaves the deposit watch set only in a look at it in
\* which the refund of its own deposit or the redemption of the counterparty's
\* deposit succeeded; a look in which neither succeeded leaves it in the set
C29_UnwatchAfterEither ==
    [][/\ \A id \in Unwatched :
            LooksAt(id) /\ watchRun'.id = id /\ (watchRun'.refunded \/ watchRun'.redeemed)
       /\ \A id \in m_watchDeposits :
            (LooksAt(id) /\ ~watchRun'.refunded /\ ~watchRun'.redeemed) =>
                id \in m_watchDeposits']_vars

\* an order left the set after the redemption of the counterparty's deposit alone,
\* another after a look that found the pay tx and redeemed nothing stays
C29_Witness ==
    /\ watchRun.id \in DOMAIN xtx \ m_watchDeposits
    /\ watchRun.redeemed /\ ~watchRun.refunded
    /\ \E id \in m_watchDeposits :
          xtx[id].doneWatching /\ ~xtx[id].redeemedCounterpartyDeposit

(***************************************************************************)
(* The refund watchdog of the service node: App::Impl::watchTraderDeposits *)
(***************************************************************************)
trRest == <<swapVars, observe, requests, selRun, snodes, relayRun, depVars, lastVars, lastLock,
            msgVars, idRuns, extVars>>

TraderIds == {1}
\* the lock time of both deposits of a record, in blocks of their chains
TraderLockTime == 2
RPC_VERIFY_ALREADY_IN_CHAIN == "RPC_VERIFY_ALREADY_IN_CHAIN"
RPC_INVALID_ADDRESS_OR_KEY == "RPC_INVALID_ADDRESS_OR_KEY"
RPC_VERIFY_REJECTED == "RPC_VERIFY_REJECTED"
RefundResults ==
    {"ok", RPC_VERIFY_ALREADY_IN_CHAIN, RPC_INVALID_ADDRESS_OR_KEY, RPC_VERIFY_REJECTED,
     "RPC_MISC_ERROR"}

\* what one call of check meets: the connector, getBlockCount and its height, the
\* block time of the connector, the outcome of refundTraderDeposit
GoodCheck == [conn |-> TRUE, count |-> TRUE, blockCount |-> 3, blockTime |-> 60, res |-> "ok"]
TraderChecks ==
    {[GoodCheck EXCEPT !.conn = FALSE], [GoodCheck EXCEPT !.count = FALSE],
     [GoodCheck EXCEPT !.blockCount = 1]}
      \cup {[GoodCheck EXCEPT !.res = r] : r \in RefundResults}
      \cup {[GoodCheck EXCEPT !.res = "RPC_MISC_ERROR", !.blockCount = c[1], !.blockTime = c[2]] :
               c \in {<<2, 3601>>, <<3, 3600>>, <<3, 3601>>, <<63, 60>>, <<62, 60>>,
                      <<5, 1431655766>>, <<3, 1431655766>>}}

\* the record is registered by the exchange once both deposits are known
watchTraderDeposit(ids) ==
    /\ \E id \in ids \ DOMAIN tr, a_refTx \in BOOLEAN, b_refTx \in BOOLEAN :
         /\ m_watchTraders' = m_watchTraders \cup {id}
         /\ tr' = tr @@ (id :> [a_refunded |-> FALSE, b_refunded |-> FALSE,
                                 a_refTx |-> a_refTx, b_refTx |-> b_refTx,
                                 a_lockTime |-> TraderLockTime, b_lockTime |-> TraderLockTime,
                                 state |-> "trCreated"])
    /\ UNCHANGED <<m_watchingTraders, tradersPc, tradersWatches, traderRun, trRest>>

\* the exchange finishes the trade of a record
FinishTrade ==
    /\ \E id \in DOMAIN tr :
         /\ tr[id].state # "trFinished"
         /\ tr' = [tr EXCEPT ![id].state = "trFinished"]
    /\ UNCHANGED <<m_watchingTraders, m_watchTraders, tradersPc, tradersWatches, traderRun,
                   trRest>>

\* the check lambda without the test of the lock time
checkAtAnyHeight(lockTime, refTx, c) ==
    /\ c.count
    /\ \/ c.res = "ok"
       \/ c.res \in {RPC_VERIFY_ALREADY_IN_CHAIN, RPC_INVALID_ADDRESS_OR_KEY,
                     RPC_VERIFY_REJECTED}

\* the check lambda, lines 2874-2899: (blockCount - lockTime) * blockTime in uint32_t
check(lockTime, refTx, c) ==
    /\ c.count
    /\ lockTime <= c.blockCount
    /\ \/ c.res = "ok"
       \/ c.res \in {RPC_VERIFY_ALREADY_IN_CHAIN, RPC_INVALID_ADDRESS_OR_KEY,
                     RPC_VERIFY_REJECTED}
       \/ Gt32(Mul32(ToU32(c.blockTime), c.blockCount - lockTime), 3600)

\* lines 2903-2927: one record of the copy is looked at
CheckTrader(r, a, b) ==
    LET a_refunded ==
            \/ r.a_refunded
            \/ /\ r.a_refTx /\ r.state # "trFinished"
               /\ a.conn /\ check(r.a_lockTime, r.a_refTx, a)
        b_refunded ==
            \/ r.b_refunded
            \/ /\ r.b_refTx /\ r.state # "trFinished"
               /\ b.conn /\ check(r.b_lockTime, r.b_refTx, b)
    IN [r |-> [r EXCEPT !.a_refunded = a_refunded, !.b_refunded = b_refunded],
        unwatch |-> (a_refunded /\ b_refunded) \/ r.state = "trFinished"]

\* the start of a run that does not look at m_watchingTraders
TradersBeginNoGuard(t) ==
    /\ tradersPc[t] = "idle"
    /\ m_watchingTraders' = TRUE
    /\ tradersWatches' = [tradersWatches EXCEPT ![t] = InOrder(m_watchTraders)]
    /\ tradersPc' = [tradersPc EXCEPT ![t] = "run"]
    /\ traderRun' = [traderRun EXCEPT !.skipped = FALSE]
    /\ UNCHANGED <<m_watchTraders, tr, trRest>>

\* lines 2864-2871, under m_watchTradersLocker
TradersBegin(t) ==
    /\ tradersPc[t] = "idle"
    /\ IF m_watchingTraders
         THEN /\ traderRun' = [traderRun EXCEPT !.skipped = TRUE]
              /\ UNCHANGED <<m_watchingTraders, tradersWatches, tradersPc>>
         ELSE /\ m_watchingTraders' = TRUE
              /\ tradersWatches' = [tradersWatches EXCEPT ![t] = InOrder(m_watchTraders)]
              /\ tradersPc' = [tradersPc EXCEPT ![t] = "run"]
              /\ traderRun' = [traderRun EXCEPT !.skipped = FALSE]
    /\ UNCHANGED <<m_watchTraders, tr, trRest>>

\* lines 2903-2927: the body of the loop for the next record of the copy
TradersItem(t, checks) ==
    /\ tradersPc[t] = "run"
    /\ tradersWatches[t] # <<>>
    /\ \E a \in checks, b \in checks :
         LET id == Head(tradersWatches[t])
             c == CheckTrader(tr[id], a, b)
         IN /\ tr' = [tr EXCEPT ![id] = c.r]
            /\ m_watchTraders' = IF c.unwatch THEN m_watchTraders \ {id} ELSE m_watchTraders
            /\ traderRun' = [id |-> id, a |-> a, b |-> b, skipped |-> FALSE]
    /\ tradersWatches' = [tradersWatches EXCEPT ![t] = Tail(@)]
    /\ UNCHANGED <<m_watchingTraders, tradersPc, trRest>>

\* lines 2929-2932, under m_watchTradersLocker
TradersEnd(t) ==
    /\ tradersPc[t] = "run"
    /\ tradersWatches[t] = <<>>
    /\ m_watchingTraders' = FALSE
    /\ tradersPc' = [tradersPc EXCEPT ![t] = "idle"]
    /\ UNCHANGED <<m_watchTraders, tr, tradersWatches, traderRun, trRest>>

NextTraders ==
    \/ watchTraderDeposit(TraderIds)
    \/ FinishTrade
    \/ \E t \in WatchThreads : TradersBegin(t)
    \/ \E t \in WatchThreads : TradersItem(t, TraderChecks)
    \/ \E t \in WatchThreads : TradersEnd(t)

SpecTraders == Init /\ [][NextTraders]_vars

\* this step is the look of a run of the watchdog at record id
LooksAtTrader(id) ==
    \E t \in WatchThreads :
        /\ tradersPc[t] = "run" /\ tradersWatches[t] # <<>> /\ Head(tradersWatches[t]) = id
        /\ tradersWatches'[t] = Tail(tradersWatches[t])

\* the conditions under which a side may be marked: c is what the check of the
\* side met; the product is (current - lockTime) * blockTime as a number
MayMark(refTx, state, lockTime, c) ==
    /\ refTx /\ state # "trFinished"
    /\ c.conn /\ c.count
    /\ lockTime <= c.blockCount
    /\ \/ c.res = "ok"
       \/ c.res \in {RPC_VERIFY_ALREADY_IN_CHAIN, RPC_INVALID_ADDRESS_OR_KEY,
                     RPC_VERIFY_REJECTED}
       \/ /\ c.blockCount > lockTime
          /\ c.blockTime > 3600 \div (c.blockCount - lockTime)

\* C30: a side of a record becomes refunded only in a look at the record, with a
\* refund tx that is not empty, the record not Finished, the lock time at or below
\* the height of the side's chain, and the refund submitted with success, or failed
\* with one of the three benign codes, or (height - lockTime) * blockTime above
\* 3600; the look takes the record out of the watch set exactly when both sides
\* are refunded after it or the record is Finished, and nothing else takes it out
C30_RefundWatchdog ==
    [][\A id \in DOMAIN tr :
          /\ (~tr[id].a_refunded /\ tr'[id].a_refunded) =>
                /\ LooksAtTrader(id) /\ traderRun'.id = id
                /\ MayMark(tr[id].a_refTx, tr[id].state, tr[id].a_lockTime, traderRun'.a)
          /\ (~tr[id].b_refunded /\ tr'[id].b_refunded) =>
                /\ LooksAtTrader(id) /\ traderRun'.id = id
                /\ MayMark(tr[id].b_refTx, tr[id].state, tr[id].b_lockTime, traderRun'.b)
          /\ LooksAtTrader(id) =>
                (id \notin m_watchTraders' <=>
                    \/ tr'[id].a_refunded /\ tr'[id].b_refunded
                    \/ tr[id].state = "trFinished")
          /\ (id \in m_watchTraders /\ id \notin m_watchTraders') => LooksAtTrader(id)]_vars

\* side A was marked because its lock time expired more than an hour ago, the
\* refund having failed; side B, whose refund failed too, is not marked and the
\* record stays in the watch set
C30_Witness ==
    /\ traderRun.id \in m_watchTraders
    /\ tr[traderRun.id].a_refunded /\ ~tr[traderRun.id].b_refunded
    /\ tr[traderRun.id].b_refTx
    /\ traderRun.a.res = "RPC_MISC_ERROR" /\ traderRun.a.blockCount = 63
    /\ traderRun.b.res = "RPC_MISC_ERROR" /\ traderRun.b.blockCount = 62

\* both watchers, run by the threads of the timer over the orders and records registered
FlightRpcs == {AllGood, [AllGood EXCEPT !.count = FALSE]}
FlightChecks == {GoodCheck, [GoodCheck EXCEPT !.conn = FALSE]}

NextFlight ==
    \/ watchForSpentDeposit({1})
    \/ watchTraderDeposit(TraderIds)
    \/ \E t \in WatchThreads : WatchBegin(t)
    \/ \E t \in WatchThreads : WatchItem(t, FlightRpcs)
    \/ \E t \in WatchThreads : WatchEnd(t)
    \/ \E t \in WatchThreads : TradersBegin(t)
    \/ \E t \in WatchThreads : TradersItem(t, FlightChecks)
    \/ \E t \in WatchThreads : TradersEnd(t)

SpecFlight == Init /\ [][NextFlight]_vars

\* the threads inside the loop of each watcher
Watching == {t \in WatchThreads : watchPc[t] = "run"}
WatchingTraders == {t \in WatchThreads : tradersPc[t] = "run"}

\* at most one run of each watcher is past its guard, and the flag of a watcher is
\* set exactly while a run of it is
OneFlight ==
    /\ Cardinality(Watching) <= 1
    /\ Cardinality(WatchingTraders) <= 1
    /\ m_watching <=> Watching # {}
    /\ m_watchingTraders <=> WatchingTraders # {}

\* a run that meets the flag of its watcher set returns at once
ReturnsAtGuard ==
    /\ (watchRun'.skipped /\ ~watchRun.skipped) =>
          /\ m_watching
          /\ UNCHANGED <<orders, xtx, m_watchDeposits, m_watching, watches, watchPc>>
    /\ (traderRun'.skipped /\ ~traderRun.skipped) =>
          /\ m_watchingTraders
          /\ UNCHANGED <<orders, tr, m_watchTraders, m_watchingTraders, tradersWatches,
                         tradersPc>>

\* C27: no two runs of checkWatchesOnDepositSpends, and no two runs of
\* watchTraderDeposits, are inside the loop over the entries at a time; a run that
\* starts while another run of the same watcher is in progress returns and changes
\* no order, no record and no watch set; once the run has finished the flag is false
C27_WatcherSingleFlight == []OneFlight /\ [][ReturnsAtGuard]_vars

\* of each watcher a run is inside its loop and another run has returned at the guard
C27_Witness ==
    /\ watchRun.skipped /\ traderRun.skipped
    /\ \E t \in Watching : watches[t] # <<>>
    /\ \E t \in WatchingTraders : tradersWatches[t] # <<>>

(***************************************************************************)
(* selectUtxos on its own, over outputs of many amounts and addresses      *)
(***************************************************************************)
selRest == <<swapVars, observe, requests, snodes, relayRun, depVars, trVars, lastVars, lastLock,
             msgVars, idRuns, extVars>>

SelectAddrs == {"", "a", "b", "c"}
SelectAmounts == {4, 20, 24}

\* App::selectUtxos, one call with empty outputsForUse
SelectUtxos ==
    /\ ~selRun.called
    /\ \E addr \in SelectAddrs, outputs \in SUBSET SelectPool, requiredAmount \in SelectAmounts :
         LET outputsForUse == selectUtxos(addr, outputs, requiredAmount)
         IN selRun' = [called |-> TRUE, addr |-> addr, outputs |-> outputs,
                       requiredAmount |-> requiredAmount, outputsForUse |-> outputsForUse,
                       ok |-> outputsForUse # <<>>]
    /\ UNCHANGED selRest

NextSelect == SelectUtxos

SpecSelect == Init /\ [][NextSelect]_vars

\* need = A + fee1(1, 3) + fee2(1, 1)
Need == selRun.requiredAmount + MinTxFee1(1, 3) + MinTxFee2(1, 1)

\* u is a candidate of the preferred step
Preferred(u) ==
    /\ Need <= Amount(u)
    /\ Amount(u) < Need + 1000 * (MinTxFee1(1, 3) + MinTxFee2(1, 1))
    /\ (selRun.addr = "" \/ Address(u) = selRun.addr)

\* C23: when some candidate is within the preferred range and of the from-address
\* (if one is given), selectUtxos succeeds with exactly one utxo, a candidate that
\* is within the range and of the from-address
C23_SelectPreferred ==
    (selRun.called /\ \E u \in selRun.outputs : Preferred(u)) =>
        /\ selRun.ok
        /\ Len(selRun.outputsForUse) = 1
        /\ selRun.outputsForUse[1] \in selRun.outputs
        /\ Preferred(selRun.outputsForUse[1])

\* a from-address is given, a larger utxo of another address is passed over
C23_Witness ==
    /\ selRun.called
    /\ selRun.addr = "b"
    /\ selRun.outputsForUse = <<10>>
    /\ 9 \in selRun.outputs

\* the candidates at or above need, and those below it
AtLeastNeed == {u \in selRun.outputs : Amount(u) >= Need}
BelowNeed == {u \in selRun.outputs : Amount(u) < Need}

\* S holds the largest of the candidates below need
LargestBelow(S) ==
    /\ S # {}
    /\ \A x \in S, y \in BelowNeed \ S : Amount(x) >= Amount(y)

\* the sum of S net of the fees of that many inputs reaches need
Reaches(S) == SumAmount(S) - MinTxFee1(Cardinality(S), 3) - MinTxFee2(1, 1) >= Need

\* the outputs selected, as a set
Selected == Range(selRun.outputsForUse)

\* C24: without a preferred candidate selectUtxos returns the smallest candidate
\* at or above need if there is one; else it fails with fewer than two candidates
\* below need; else it returns the shortest run of the largest candidates whose sum
\* net of fee1(count, 3) and fee2(1, 1) reaches need, in descending order, and fails
\* with nothing selected if none does. Whenever it succeeds the selected utxos are
\* distinct candidates whose total is at least A + fee1(count, 3) + fee2(1, 1)
C24_SelectFallback ==
    selRun.called =>
        /\ selRun.ok <=> selRun.outputsForUse # <<>>
        /\ selRun.ok =>
              /\ Selected \subseteq selRun.outputs
              /\ Cardinality(Selected) = Len(selRun.outputsForUse)
              /\ SumAmount(Selected) >=
                    selRun.requiredAmount + MinTxFee1(Len(selRun.outputsForUse), 3)
                                          + MinTxFee2(1, 1)
        /\ (~\E u \in selRun.outputs : Preferred(u)) =>
              IF AtLeastNeed # {}
                THEN /\ Len(selRun.outputsForUse) = 1
                     /\ selRun.outputsForUse[1] \in AtLeastNeed
                     /\ \A v \in AtLeastNeed : Amount(selRun.outputsForUse[1]) <= Amount(v)
              ELSE IF Cardinality(BelowNeed) < 2
                THEN ~selRun.ok
              ELSE IF \E S \in SUBSET BelowNeed : LargestBelow(S) /\ Reaches(S)
                THEN /\ LargestBelow(Selected) /\ Reaches(Selected)
                     /\ \A S \in SUBSET BelowNeed :
                           (LargestBelow(S) /\ Reaches(S)) =>
                               Cardinality(S) >= Cardinality(Selected)
                     /\ \A i, j \in DOMAIN selRun.outputsForUse :
                           i < j => Amount(selRun.outputsForUse[i])
                                      >= Amount(selRun.outputsForUse[j])
              ELSE ~selRun.ok

\* three utxos below need are accumulated
C24_Witness ==
    /\ selRun.called
    /\ selRun.requiredAmount = 20
    /\ Len(selRun.outputsForUse) = 3
    /\ AtLeastNeed = {}

\* the smallest of several utxos above need is taken, none being preferred
C24_WitnessSmallest ==
    /\ selRun.called
    /\ Cardinality(AtLeastNeed) > 1
    /\ ~\E u \in selRun.outputs : Preferred(u)
    /\ selRun.ok

\* packets and broadcasts, valid and not
NextDrop ==
    \/ RouteMessage
    \/ RouteBroadcast

SpecDrop == InitRoute /\ [][NextDrop]_vars

\* what the program holds besides the set of seen hashes
DropFrame ==
    <<swapVars, m_sessions, m_sessionAddressMap, m_connectors, m_connectorCurrencyMap,
      m_connectorAddressMap, m_badWallets, m_updatingWallets>>

\* the message fails the version check, the parse or the signature verification
InvalidPacket(message) ==
    ~(checkXBridgePacketVersion(message) /\ copyFrom(message) /\ verify(message))

\* C21: a packet or broadcast that fails the version check, the parse or the
\* signature verification is passed to no session and changes nothing but the set
\* of seen hashes, which holds its hash afterwards (recorded by addToKnown when the
\* hash was not there), so that the same bytes arriving again are dropped as well
C21_InvalidPacketsDropped ==
    [][(routeRun'.entry # "" /\ InvalidPacket(routeRun'.message)) =>
         /\ routeRun'.processed = <<>>
         /\ UNCHANGED DropFrame
         /\ MessageHash[routeRun'.message] \in m_processedMessages'
         /\ m_processedMessages' =
               IF routeRun'.known THEN m_processedMessages
               ELSE addToKnown(m_processedMessages, MessageHash[routeRun'.message])]_vars

\* a broadcast whose signature is bad arrives a second time and is dropped as known
C21_Witness ==
    /\ routeRun.entry = "broadcast"
    /\ routeRun.message = <<1, 1>>
    /\ routeRun.known
    /\ routeRun.processed = <<>>

\* the sessions App::init makes: boost::thread::hardware_concurrency() of them
HardwareConcurrency == 1

\* C22: the queue of sessions never holds more sessions than App::init made
C22_SessionPoolBound == Len(m_sessions) <= HardwareConcurrency

\* getSession() leaves the queue as long as it was when the front session is idle
C22_IdleHeadKeepsPool ==
    [][(routeRun'.processed # <<>> /\ routeRun'.processed[1] \in Range(m_sessions))
          => Len(m_sessions') = Len(m_sessions)]_vars

(***************************************************************************)
(* Properties                                                              *)
(***************************************************************************)
\* the live orders sending currency c whose usedCoins hold utxo u
LiveUsers(c, u) ==
    {id \in m_transactions :
        orders[id].fromCurrency = c /\ u \in Range(orders[id].usedCoins)}

Accepted == {id \in m_transactions : orders[id].role = "B"}

\* C2: fee-lock disjointness. A fee utxo of a live accepted order is neither a
\* fee utxo of another live accepted order nor a used coin of another live
\* order of any currency, and it is none of the order's own used coins.
C2_FeeLockDisjoint ==
    \A i \in Accepted :
        /\ orders[i].feeUtxos \cap Range(orders[i].usedCoins) = {}
        /\ \A j \in m_transactions \ {i} :
              /\ orders[i].feeUtxos \cap Range(orders[j].usedCoins) = {}
              /\ j \in Accepted => orders[i].feeUtxos \cap orders[j].feeUtxos = {}

\* C3: lockCoins is all-or-nothing. It returns false exactly when a utxo of the
\* request is already locked for the currency, and then the lock map is
\* unchanged; otherwise it returns true, the request is locked for the currency
\* and the lock sets of the other currencies are unchanged.
C3_LockCoinsAllOrNothing ==
    lastLock.op = "lock" =>
        LET b == lastLock.before
            t == lastLock.token
        IN /\ (~lastLock.ok) <=> (lastLock.utxos \cap LockedOf(b, t) # {})
           /\ (~lastLock.ok) => m_utxosDict = b
           /\ lastLock.ok =>
                 /\ LockedOf(m_utxosDict, t) = LockedOf(b, t) \cup lastLock.utxos
                 /\ \A c \in Cur \ {t} :
                       /\ LockedOf(m_utxosDict, c) = LockedOf(b, c)
                       /\ (c \in DOMAIN m_utxosDict) <=> (c \in DOMAIN b)

\* a request that overlaps the locked set only in part was rejected
C3_Witness ==
    /\ lastLock.op = "lock"
    /\ ~lastLock.ok
    /\ lastLock.utxos \ LockedOf(lastLock.before, lastLock.token) # {}
    /\ \E c \in Cur \ {lastLock.token} : LockedOf(m_utxosDict, c) # {}

\* a createOrder call of thread p has returned
CreateDone(p) == pc[p] = "done" /\ loc[p].op = "create"

Fundable(pool, amt) == selectUtxos(Address(0), pool, amt) # <<>>

\* createOrder of p was funded while createOrder of q was in progress, no
\* output was released before q looked (q saw none that p had not seen), and the
\* outputs p saw fund q's request only with coins p has taken
Contested(p, q) ==
    /\ CreateDone(p) /\ CreateDone(q)
    /\ p \in loc[q].pred
    /\ loc[q].pool \subseteq loc[p].pool
    /\ Fundable(loc[p].pool, loc[q].amt)
    /\ ~Fundable(loc[p].pool \ Range(loc[p].sel), loc[q].amt)

\* C4: of two concurrent createOrder calls that can only be funded by the same
\* utxos, exactly one returns Success and the other InsufficientFunds, and the
\* contested utxos are locked for the successful order only.
C4_ConcurrentCreate ==
    \A p \in Procs : \A q \in Procs \ {p} :
        Contested(p, q) =>
            /\ loc[p].result = "SUCCESS"
            /\ loc[q].result = "INSIFFICIENT_FUNDS"
            /\ loc[p].id \in m_transactions
            /\ orders[loc[p].id].usedCoins = loc[p].sel
            /\ Range(loc[p].sel) \subseteq LockedOf(m_utxosDict, loc[p].cur)
            /\ \A j \in m_transactions \ {loc[p].id} :
                  orders[j].fromCurrency = loc[p].cur =>
                      Range(orders[j].usedCoins) \cap Range(loc[p].sel) = {}

\* two contested calls have returned, the loser past its balance check
C4_Witness ==
    \E p \in Procs : \E q \in Procs \ {p} :
        Contested(p, q) /\ loc[q].pool # {}

\* thread p takes a step of a createOrder call that does not succeed here
CreateStepNoSuccess(p) ==
    /\ pc'[p] # pc[p]
    /\ loc'[p].op = "create"
    /\ \/ pc'[p] = "c_utxo"
       \/ pc'[p] = "done" /\ loc'[p].result # "SUCCESS"

\* C5: a createOrder call that returns another result than Success leaves the
\* live map, the history map, the order locks and the fee locks as they were:
\* none of its steps changes them.
C5_CreateFailureNoEffect ==
    [][\A p \in Procs :
          CreateStepNoSuccess(p) =>
              /\ m_transactions' = m_transactions
              /\ m_historicTransactions' = m_historicTransactions
              /\ m_feeUtxos' = m_feeUtxos
              /\ \A c \in Cur \cup {LongCurrency} :
                    LockedOf(m_utxosDict', c) = LockedOf(m_utxosDict, c)]_vars

\* a call failed at signing its coins, next to a live order holding coins
C5_Witness ==
    \E p \in Procs :
        /\ CreateDone(p)
        /\ loc[p].result \in {"FUNDS_NOT_SIGNED", "INVALID_SIGNATURE", "INVALID_ADDRESS"}
        /\ loc[p].pool # {}
        /\ m_transactions # {}
        /\ LockedOf(m_utxosDict, loc[p].cur) # {}

\* an acceptOrder call of thread p has failed after it wrote trAccepting
AcceptFailed(p) ==
    /\ pc[p] = "done"
    /\ loc[p].op = "accept"
    /\ loc[p].result \notin {"SUCCESS", "TRANSACTION_NOT_FOUND", "BAD_REQUEST"}

\* C6: a failing return of acceptOrder after the state was set to trAccepting
\* has restored the state the order had on entry and leaves locked none of the
\* fee utxos and order utxos the call acquired.
C6_AcceptFailureRestores ==
    \A p \in Procs : AcceptFailed(p) => loc[p].restored /\ loc[p].leak = {}

\* C7: no order id is a key of both the live map and the history map.
C7_LiveHistoryDisjoint == m_transactions \cap m_historicTransactions = {}

\* an order is retired while another one is live, and the budget of calls is
\* used up: the retired order was announced again, or a further one retired
C7_Witness ==
    /\ m_historicTransactions # {}
    /\ m_transactions # {}
    /\ calls = MaxCalls
    /\ nextId = MaxCalls

IsState(s) == s \in Range(StateOrder)

\* the step lowers the state rank of order id; a step that inserts id into the
\* live map stores a new order object and is no change of an order's state
Lowers(id) ==
    /\ id \in DOMAIN orders'
    /\ (id \in m_transactions \/ id \notin m_transactions')
    /\ IsState(orders[id].state)
    /\ IsState(orders'[id].state)
    /\ StateRank(orders'[id].state) < StateRank(orders[id].state)

\* the step is the scan of the expiry sweep and resurrects order id
Resurrects(id) ==
    /\ sweepPc = "idle"
    /\ sweepPc' = "erase"
    /\ orders[id].state \in {"trOffline", "trExpired"}
    /\ orders'[id].state = "trPending"

\* the step is the failing return of an acceptOrder call on order id, which
\* writes back the state the call read on entry
AcceptRestores(id) ==
    \E p \in Procs :
        /\ pc[p] \in {"a_validate", "a_utxo", "a_finish"}
        /\ pc'[p] # pc[p]
        /\ loc[p].id = id
        /\ orders'[id].state = loc[p].prior

\* the step is acceptOrder's write of trAccepting to order id, after the sweep
\* moved the order on between the call's check of the state and this write
AcceptOverwrites(id) ==
    \E p \in Procs :
        /\ pc[p] = "a_set"
        /\ pc'[p] = "a_validate"
        /\ loc[p].id = id
        /\ orders[id].state \in {"trOffline", "trExpired"}
        /\ orders'[id].state = "trAccepting"

C9_ProcessedAtMostOnce == \A h \in MessageHashes : handled[h] <= 1

\* C10: two runs of createOrder with identical values of the nine hashed
\* inputs compute the same id, whatever the service node, the remaining utxos
\* and the generated keys are.
C10_OrderIdDeterminism ==
    \A r1 \in Runs : \A r2 \in Runs :
        (idRuns[r1].computed /\ idRuns[r2].computed /\ idRuns[r1].locals.in = idRuns[r2].locals.in)
            => idRuns[r1].id = idRuns[r2].id

\* two runs agree on the nine inputs and differ in the service node, the other
\* utxos and both keys
C10_Witness ==
    /\ idRuns[1].computed
    /\ idRuns[2].computed
    /\ idRuns[1].locals.in = idRuns[2].locals.in
    /\ idRuns[1].locals.sPubKey # idRuns[2].locals.sPubKey
    /\ idRuns[1].locals.otherSigs # idRuns[2].locals.otherSigs
    /\ idRuns[1].locals.mPubKey # idRuns[2].locals.mPubKey
    /\ idRuns[1].locals.xPubKey # idRuns[2].locals.xPubKey

\* the registry after the step
RegistryNext ==
    [list |-> m_connectors', cur |-> m_connectorCurrencyMap', addr |-> m_connectorAddressMap']

\* the entries of a registry that belong to other currencies than c
OthersOf(r, c) ==
    [list |-> SelectSeq(r.list, LAMBDA x : x.currency # c),
     cur |-> [k \in DOMAIN r.cur \ {c} |-> r.cur[k]],
     addr |-> [a \in DOMAIN r.addr \ AddrsOf(r, c) |-> r.addr[a]]]

\* what addConnector(call.conn) made of registry r
AddPost(call, r, r2) ==
    /\ Cardinality({i \in DOMAIN r2.list : r2.list[i].currency = call.currency}) = 1
    /\ \A i \in DOMAIN r2.list : r2.list[i].currency = call.currency => r2.list[i] = call.conn
    /\ call.currency \in DOMAIN r2.cur
    /\ r2.cur[call.currency] = call.conn
    /\ \A a \in AddrsOf(r, call.currency) : a \in DOMAIN r2.addr /\ r2.addr[a] = call.conn
    /\ AddrsOf(r2, call.currency) = AddrsOf(r, call.currency)
    /\ OthersOf(r2, call.currency) = OthersOf(r, call.currency)

\* what removeConnector(call.currency) made of registry r
RemovePost(call, r, r2) ==
    /\ \A i \in DOMAIN r2.list : r2.list[i].currency # call.currency
    /\ call.currency \notin DOMAIN r2.cur
    /\ \A k \in DOMAIN r2.cur : r2.cur[k].currency # call.currency
    /\ AddrsOf(r2, call.currency) = {}
    /\ OthersOf(r2, call.currency) = OthersOf(r, call.currency)

InRefresh(f) == f.conns \cup Range(f.validConnections) \cup Range(f.badConnections)

\* the refresh handles the first of its bad connections
BadStep == upd.pc = "bad" /\ upd' # upd
\* the refresh evaluates the first of its wallets
EvalStep == upd.pc = "eval" /\ upd' # upd

MeetsLocktime(wp) ==
    LET b == wp.blockTime
        c == wp.requiredConfirmations
    IN /\ b > 0
       /\ b <= XMAKER_LOCKTIME_TARGET_SECONDS \div XMIN_LOCKTIME_BLOCKS
       /\ IF b < XSLOW_BLOCKTIME_SECONDS
            THEN b <= XTAKER_LOCKTIME_TARGET_SECONDS \div XMIN_LOCKTIME_BLOCKS
            ELSE b <= XSLOW_TAKER_LOCKTIME_TARGET_SECONDS \div XMIN_LOCKTIME_BLOCKS
       /\ c >= 0
       /\ c <= Max(XLOCKTIME_DRIFT_SECONDS \div b, XMAX_LOCKTIME_DRIFT_BLOCKS)

\* C13: Locktime admission. A wallet the refresh admits for probing meets the
\* maker, taker and confirmation requirements over the integers; a wallet that
\* does not, or whose COIN or blockTime is 0, is removed from the registry and
\* not probed.
C13_LocktimeAdmission ==
    upd.lastEval.res \notin {"", "quarantined"} =>
        LET wp == upd.lastEval.wp
            w == upd.lastEval.currency
        IN /\ upd.lastEval.res = "admitted" => MeetsLocktime(wp)
           /\ (~MeetsLocktime(wp) \/ wp.COIN = 0 \/ wp.blockTime = 0) =>
                 /\ \A conn \in InRefresh(upd) : conn.currency # w
                 /\ RemovePost(RemoveCall(w), Registry, Registry)

\* C14: BCH sighash byte. The byte appended to the signature of a refund or
\* payment transaction is 0x41, the low byte of the caller's sighash type
\* (SIGHASH_ALL | SIGHASH_FORKID); the type hashed into the preimage is
\* 0xffdead41, with the same low byte; the caller's type is not rewritten.
C14_BchSighashByte ==
    sigRun.computed =>
        /\ sigRun.sigHashType = [hi |-> 0, lo |-> 65]
        /\ sigRun.preimageType = [hi |-> 65502, lo |-> 44353]
        /\ U8(sigRun.preimageType) = U8(sigRun.sigHashType)
        /\ sigRun.signed =>
              /\ sigRun.signature[Len(sigRun.signature)] = 65
              /\ Len(sigRun.signature) = Len(Sign(sigRun.hash)) + 1

\* a refund transaction with a lock time was signed
C14_Witness ==
    /\ sigRun.computed
    /\ sigRun.fn = "refund"
    /\ sigRun.signed
    /\ sigRun.tx.nLockTime > 0
    /\ sigRun.tx.nSequence = SEQUENCE_FINAL_1

\* the payload holds a prefix of the id followed by the four fields as they
\* were written into the overhead payload
OnlyIdShortened(r) ==
    /\ Len(r.orderId) <= Len(r.id)
    /\ r.orderId = SubSeq(r.id, 1, Len(r.orderId))
    /\ r.strInfo = <<91, 34>> \o r.orderId \o SubSeq(r.overhead, 3, Len(r.overhead))

\* whenever the overhead fits, the payload fits and only the id was shortened
FeePayloadFitsUnlessWrapped ==
    payloadRun.computed =>
        \/ payloadRun.wrapped
        \/ /\ payloadRun.res = "emitted"
           /\ Len(payloadRun.strInfo) <= payloadRun.maxBytes
           /\ OnlyIdShortened(payloadRun)

RECURSIVE AfterPoint(_)
AfterPoint(s) ==
    IF s = <<>> THEN <<>> ELSE IF Head(s) = 46 THEN Tail(s) ELSE AfterPoint(Tail(s))

RECURSIVE StripZeros(_)
StripZeros(s) ==
    IF s # <<>> /\ s[Len(s)] = 48 THEN StripZeros(SubSeq(s, 1, Len(s) - 1)) ELSE s

IsDigit(c) == c \in 48..57

\* the digits after the decimal point, not counting trailing zeros
PrecisionDigits(s) == Len(StripZeros(SelectSeq(AfterPoint(s), IsDigit)))

\* the same count when only the zeros at the very end of s are trailing
PrecisionDigitsOfTail(s) == Len(SelectSeq(StripZeros(AfterPoint(s)), IsDigit))

RECURSIVE Log10(_)
Log10(c) == IF c < 10 THEN 0 ELSE 1 + Log10(c \div 10)

Points(s) == Len(SelectSeq(s, LAMBDA c : c = 46))

\* C16: for every coin string over digits and '.', xBridgeValidCoin is true iff
\* the number of digits after the decimal point, not counting trailing zeros,
\* is at most log10(COIN), the precision being xBridgeSignificantDigits(COIN).
C16_ValidCoin ==
    coinRun.computed =>
        /\ xBridgeSignificantDigits(TransactionDescrCOIN) = Log10(TransactionDescrCOIN)
        /\ coinRun.valid <=> (PrecisionDigits(coinRun.coin) <= Log10(TransactionDescrCOIN))

\* the same with the other reading of the count
ValidCoinOfTail ==
    coinRun.computed =>
        (coinRun.valid <=> (PrecisionDigitsOfTail(coinRun.coin) <= Log10(TransactionDescrCOIN)))

\* strings with at most one '.' are judged as stated
ValidCoinOnePoint ==
    (coinRun.computed /\ Points(coinRun.coin) <= 1) =>
        (coinRun.valid <=> (PrecisionDigits(coinRun.coin) <= Log10(TransactionDescrCOIN)))
\* the step is the scan of the expiry sweep
SweepScan == sweepPc = "idle" /\ sweepPc' = "erase"

\* the orders whose lock the scan obtained
Examined == m_transactions \ lastSweep'.skipped

\* C17: in the scan of the expiry sweep, of the live orders whose lock it
\* obtains, a New order with txtime age > pendingTTL becomes Offline, a Pending
\* order with txtime age > pendingTTL becomes Expired and an Expired or Offline
\* order with txtime age < pendingTTL becomes Pending; an order whose lock
\* another thread holds is left unchanged, and the scan completes without it.
C17_SweepTransitions ==
    [][SweepScan =>
        /\ \A id \in Examined :
             LET o == orders[id]
                 td == now - o.txtime
             IN /\ (o.state = "trNew" /\ td > pendingTTL) => orders'[id].state = "trOffline"
                /\ (o.state = "trPending" /\ td > pendingTTL) => orders'[id].state = "trExpired"
                /\ (o.state \in {"trExpired", "trOffline"} /\ td < pendingTTL) =>
                       orders'[id].state = "trPending"
        /\ \A id \in lastSweep'.skipped : orders'[id] = orders[id] /\ id \notin forErase']_vars

\* a scan that skipped a locked order and moved one order along each of the three
\* transitions has been seen
SweepMoved(from, to) ==
    \E id \in DOMAIN lastSweep.before :
        /\ id \notin lastSweep.skipped
        /\ lastSweep.before[id].state = from
        /\ orders[id].state = to

C17_Witness ==
    /\ sweepPc = "erase"
    /\ lastSweep.skipped # {}
    /\ \E id \in lastSweep.skipped :
         /\ lastSweep.before[id].state = "trNew"
         /\ lastSweep.time - lastSweep.before[id].txtime > pendingTTL
    /\ \/ SweepMoved("trNew", "trOffline")
       \/ SweepMoved("trPending", "trExpired")
       \/ SweepMoved("trOffline", "trPending")
       \/ SweepMoved("trExpired", "trPending")
\* the step is the erasure that ends the expiry sweep
SweepEnd == sweepPc = "erase" /\ sweepPc' = "idle"

\* the orders the claim wants erased
DueAsClaimed(o, currentTime) ==
    \/ o.state = "trPending" /\ currentTime - o.created > deadlineTTL
    \/ o.state \in {"trExpired", "trOffline"} /\ currentTime - o.txtime > TTL

\* the same, a pending order being due only when its txtime age is at most
\* pendingTTL
Due(o, currentTime) ==
    \/ /\ o.state = "trPending"
       /\ currentTime - o.created > deadlineTTL
       /\ currentTime - o.txtime <= pendingTTL
    \/ o.state \in {"trExpired", "trOffline"} /\ currentTime - o.txtime > TTL

\* C18: every Pending order whose creation age exceeds deadlineTTL and every
\* Expired or Offline order whose txtime age exceeds TTL is erased from the live
\* map by the sweep that examines it: the scan that obtains its lock puts it on
\* the erase list, and the end of the sweep erases the list from the live map.
C18_SweepErasure ==
    [][/\ SweepScan => \A id \in Examined : DueAsClaimed(orders[id], now) => id \in forErase'
       /\ SweepEnd => forErase \cap m_transactions' = {}]_vars

\* C18 as amended: a Pending order is erased when its creation age exceeds
\* deadlineTTL and its txtime age is at most pendingTTL.
C18_SweepErasureOfFreshPending ==
    [][/\ SweepScan => \A id \in Examined : Due(orders[id], now) => id \in forErase'
       /\ SweepEnd => forErase \cap m_transactions' = {}]_vars

\* a sweep has erased a pending order past its deadline
C18_Witness ==
    /\ sweepPc = "idle"
    /\ \E id \in lastSweep.erased :
         /\ id \notin m_transactions
         /\ lastSweep.before[id].state = "trPending"
         /\ Due(lastSweep.before[id], lastSweep.time)
\* C19: addToKnown clears the seen-set when its size times 64 exceeds
\* maxmempoolxbridge * 1000000 and then inserts the hash: the set never holds
\* more than floor(maxmempoolxbridge * 1000000 / 64) + 1 hashes, and a hash is in
\* the set right after it was added. (1000000 / 64 = 15625.)
C19_KnownSetBound ==
    /\ knownRun.size <= knownRun.setting * 15625 + 1
    /\ knownRun.last = "tracked" => knownRun.has /\ knownRun.size >= 1
    /\ (knownRun.last # "" /\ knownRun.before > knownRun.setting * 15625) =>
           knownRun.cleared /\ knownRun.size = 1

\* an add found the set over the threshold of the default setting, cleared it and
\* inserted the hash it was given
C19_Witness ==
    /\ knownRun.setting = 128
    /\ knownRun.last = "tracked"
    /\ knownRun.before = 128 * 15625 + 1
    /\ knownRun.cleared
    /\ knownRun.has
    /\ knownRun.size = 1
\* C20: a verified packet that was not known and is addressed to id is
\* processed by exactly one session: the session whose address is id if there is
\* one; otherwise a worker session if id is in the connector address map;
\* otherwise a worker session if the exchange is started and the active service
\* node's key id is id; otherwise by no session.
C20_RoutingPrecedence ==
    (routeRun.id # "" /\ routeRun.verified /\ ~routeRun.known) =>
        /\ routeRun.direct => routeRun.processed = <<routeRun.id>>
        /\ (~routeRun.direct /\ (routeRun.conn \/ routeRun.sn)) =>
               /\ Len(routeRun.processed) = 1
               /\ routeRun.processed[1] \in DOMAIN m_sessionAddressMap
        /\ (~routeRun.direct /\ ~routeRun.conn /\ ~routeRun.sn) => routeRun.processed = <<>>

\* a packet addressed to a session whose address is also a wallet address and
\* the key id of the service node was processed by that session alone
C20_Witness ==
    /\ routeRun.verified /\ ~routeRun.known
    /\ routeRun.direct
    /\ routeRun.conn \/ routeRun.sn
    /\ routeRun.processed = <<routeRun.id>>
    /\ Len(m_sessions) > 1

(***************************************************************************)
(* The service-node selector: App::Impl::findShuffledNodesWithService and  *)
(* App::findNodeWithService, over a registry given as the list of          *)
(* ServiceNodeMgr::list(), each entry with what getSn answers for its key  *)
(***************************************************************************)
outerRest == <<observe, requests, selRun, snodes, relayRun, depVars, trVars, lastLock,
               msgVars, idRuns, extVars>>
lastRest == <<swapVars, outerRest>>
selectorRest == <<lastRest, lockVars, ppVars, flushRun, buildRun>>

\* std::set<std::string> iterates in the order of the strings
ServiceOrder == <<"BLOCK", "LTC", LongCurrency>>
ServiceSeq(services) == SelectSeq(ServiceOrder, LAMBDA c : c \in services)

\* an entry of the registry
SnodeEntry(k, ver, run, serv, reg) ==
    [key |-> k, version |-> ver, running |-> run, services |-> serv, registered |-> reg]

\* a registry with a node of every kind, one with two good nodes, one with none
MixedRegistry ==
    << SnodeEntry("n1", XBRIDGE_PROTOCOL_VERSION, TRUE, {"BLOCK", "LTC", LongCurrency}, TRUE),
       SnodeEntry("n2", XBRIDGE_PROTOCOL_VERSION, TRUE, {"BLOCK", "LTC"}, TRUE),
       SnodeEntry("n3", XBRIDGE_PROTOCOL_VERSION, FALSE, {"BLOCK", "LTC"}, TRUE),
       SnodeEntry("n4", XBRIDGE_PROTOCOL_VERSION + 1, TRUE, {"BLOCK", "LTC"}, TRUE),
       SnodeEntry("n5", XBRIDGE_PROTOCOL_VERSION, TRUE, {"BLOCK", "LTC"}, FALSE),
       SnodeEntry("n6", XBRIDGE_PROTOCOL_VERSION, TRUE, {"LTC", "BLOCK"}, TRUE),
       SnodeEntry("n7", XBRIDGE_PROTOCOL_VERSION, TRUE, {"LTC"}, TRUE) >>
PairRegistry == SubSeq(MixedRegistry, 1, 2)
DeadRegistry == SubSeq(MixedRegistry, 3, 5)
SelRegistries == {MixedRegistry, PairRegistry, DeadRegistry}

\* the currencies of an order (lines 1375 and 2680) and the nodes it excludes
SelServices == {{"BLOCK", "LTC"}, {"LTC"}, {"BLOCK", LongCurrency}}
SelNotIn == {{}, {"n1"}, {"n1", "n2", "n6"}}

\* the loop of lines 2497-2503 that pushes the key once every service counts
CoversLoopPushesEach(servs, wallet_services, searchCounter) ==
    Cardinality({i \in DOMAIN servs : servs[i] \in wallet_services})

\* the loop of lines 2497-2503: the number of times the key is pushed
RECURSIVE CoversLoop(_, _, _)
CoversLoop(servs, wallet_services, searchCounter) ==
    IF servs = <<>> THEN 0
    ELSE IF Head(servs) \notin wallet_services THEN 0
    ELSE (IF searchCounter - 1 = 0 THEN 1 ELSE 0)
         + CoversLoop(Tail(servs), wallet_services, searchCounter - 1)

\* the loop of lines 2481-2505 over the registry: the list before the shuffle
RECURSIVE CollectNodes(_, _, _, _)
CollectNodes(registry, requested_services, version, notIn) ==
    IF registry = <<>> THEN <<>>
    ELSE LET x == Head(registry)
             rest == CollectNodes(Tail(registry), requested_services, version, notIn)
             pushes == CoversLoop(ServiceSeq(requested_services), x.services,
                                  Cardinality(requested_services))
         IN IF x.version # version \/ x.key \in notIn \/ ~x.running THEN rest
            ELSE IF ~x.registered THEN rest
            ELSE [i \in 1..pushes |-> x.key] \o rest

\* minstd_rand0, the default_random_engine of libstdc++: x' = 16807 x mod (2^31 - 1),
\* computed by Schrage's method so that no product passes 2^31
EngineModulus == 2147483647
EngineMultiplier == 16807
EngineQ == 127773
EngineR == 2836
EngineMin == 1
EngineNext(x) ==
    LET t == EngineMultiplier * (x % EngineQ) - EngineR * (x \div EngineQ)
    IN IF t < 0 THEN t + EngineModulus ELSE t

\* uniform_int_distribution over 0..k-1 drawn from engine state x (libstdc++:
\* the draw is scaled down, a draw past the last whole multiple is drawn again)
RECURSIVE UniformInt(_, _)
UniformInt(k, x) ==
    LET urngrange == (EngineModulus - 1) - EngineMin
        scaling == urngrange \div k
        past == k * scaling
        next == EngineNext(x)
        ret == next - EngineMin
    IN IF ret >= past THEN UniformInt(k, next)
       ELSE [value |-> ret \div scaling, rng |-> next]

Swap(l, a, b) == [l EXCEPT ![a] = l[b], ![b] = l[a]]

\* std::shuffle of libstdc++ from element i (counted from 0) on: two swaps a draw
RECURSIVE ShufflePairs(_, _, _)
ShufflePairs(l, i, x) ==
    IF i >= Len(l) THEN [list |-> l, rng |-> x]
    ELSE LET d == UniformInt((i + 1) * (i + 2), x)
             l1 == Swap(l, i + 1, (d.value \div (i + 2)) + 1)
             l2 == Swap(l1, i + 2, (d.value % (i + 2)) + 1)
         IN ShufflePairs(l2, i + 2, d.rng)

\* std::shuffle with an engine made anew, seeded with 0, by every call
shuffleFreshEngine(l, x) ==
    LET s == IF Len(l) = 0 THEN [list |-> l, rng |-> EngineSeed]
             ELSE IF Len(l) % 2 = 0
               THEN LET d == UniformInt(2, EngineSeed)
                    IN ShufflePairs(Swap(l, 2, d.value + 1), 2, d.rng)
             ELSE ShufflePairs(l, 1, EngineSeed)
    IN [list |-> s.list, rng |-> x]

\* std::shuffle(list.begin(), list.end(), rng), line 2507, from engine state x:
\* the shuffled list and the state the engine is left in
shuffle(l, x) ==
    IF Len(l) = 0 THEN [list |-> l, rng |-> x]
    ELSE IF Len(l) % 2 = 0
      THEN LET d == UniformInt(2, x)
           IN ShufflePairs(Swap(l, 2, d.value + 1), 2, d.rng)
    ELSE ShufflePairs(l, 1, x)

\* findShuffledNodesWithService, lines 2474-2509, on a registry given as a list
ShuffledNodesWithService(registry, requested_services, version, notIn, x) ==
    shuffle(CollectNodes(registry, requested_services, version, notIn), x)

\* the number of calls of the selector in a run
MaxSelCalls == 3

\* App::findNodeWithService, lines 2357-2366; node is "" when the call returns false
FindNodeWithService ==
    /\ Len(nodeRun) < MaxSelCalls
    /\ \E registry \in SelRegistries, services \in SelServices, notIn \in SelNotIn :
         LET r == ShuffledNodesWithService(registry, services, XBRIDGE_PROTOCOL_VERSION,
                                           notIn, rng)
         IN /\ rng' = r.rng
            /\ nodeRun' = Append(nodeRun,
                 [registry |-> registry, services |-> services, notIn |-> notIn,
                  list |-> r.list, found |-> r.list # <<>>,
                  node |-> IF r.list = <<>> THEN "" ELSE Head(r.list)])
    /\ UNCHANGED selectorRest

NextSelector == FindNodeWithService

SpecSelector == Init /\ [][NextSelector]_vars

\* the nodes of a registry the selector is to return
Qualified(registry, services, notIn) ==
    {registry[i].key : i \in {j \in DOMAIN registry :
        /\ registry[j].registered
        /\ registry[j].running
        /\ registry[j].version = XBRIDGE_PROTOCOL_VERSION
        /\ registry[j].key \notin notIn
        /\ services \subseteq registry[j].services}}

NodeServices(registry, key) ==
    UNION {registry[i].services : i \in {j \in DOMAIN registry : registry[j].key = key}}

\* C31: the list of every call of the selector holds exactly the registered nodes
\* that run, have the protocol version, are not excluded and advertise every
\* currency asked for, each once; the call returns false exactly when there is
\* none, and otherwise gives the first of the list, which is not excluded and
\* advertises every currency
C31_SelectorResult ==
    \A i \in DOMAIN nodeRun :
        LET r == nodeRun[i]
            q == Qualified(r.registry, r.services, r.notIn)
        IN /\ Range(r.list) = q
           /\ Len(r.list) = Cardinality(q)
           /\ r.found <=> q # {}
           /\ r.found => /\ r.node = r.list[1]
                         /\ r.node \notin r.notIn
                         /\ r.services \subseteq NodeServices(r.registry, r.node)

\* a call that left out a stopped node, a node of another version, an unregistered
\* node and a node without one of the currencies and found three nodes, and a call
\* that found none
C31_Witness ==
    /\ \E i \in DOMAIN nodeRun :
          /\ nodeRun[i].registry = MixedRegistry
          /\ nodeRun[i].services = {"BLOCK", "LTC"}
          /\ nodeRun[i].notIn = {}
          /\ Len(nodeRun[i].list) = 3
          /\ nodeRun[i].found
    /\ \E i \in DOMAIN nodeRun :
          /\ nodeRun[i].registry = MixedRegistry
          /\ nodeRun[i].notIn = {"n1", "n2", "n6"}
          /\ ~nodeRun[i].found

\* two calls of the selector with the same registry, currencies and exclusion set
SameInputs(a, b) ==
    /\ a.registry = b.registry
    /\ a.services = b.services
    /\ a.notIn = b.notIn

\* C32 as claimed: calls of the selector with the same registry, currencies,
\* protocol version and exclusion set return the same ordering, however many
\* calls were made before
C32_SameOrdering ==
    \A i, j \in DOMAIN nodeRun :
        SameInputs(nodeRun[i], nodeRun[j]) => nodeRun[i].list = nodeRun[j].list

\* the engine after n draws from state x
RECURSIVE EngineAfter(_, _)
EngineAfter(x, n) == IF n = 0 THEN x ELSE EngineAfter(EngineNext(x), n - 1)

\* the draws the shuffles of the calls before call i made: one for two elements
RECURSIVE DrawsBefore(_)
DrawsBefore(i) ==
    IF i <= 1 THEN 0 ELSE DrawsBefore(i - 1) + (Len(nodeRun[i - 1].list) \div 2)

\* C32 as amended: the ordering of a call is the shuffle of its candidates by
\* the engine in the state that the seed 0 and the lengths of the lists shuffled
\* by the calls before it give, so the same sequence of calls returns the same
\* sequence of orderings in every process
C32_OrderingReplays ==
    /\ rng = EngineAfter(EngineSeed, DrawsBefore(Len(nodeRun) + 1))
    /\ \A i \in DOMAIN nodeRun :
          LET r == nodeRun[i]
          IN r.list = shuffle(CollectNodes(r.registry, r.services, XBRIDGE_PROTOCOL_VERSION,
                                           r.notIn),
                              EngineAfter(EngineSeed, DrawsBefore(i))).list

\* three calls with the same inputs, the third of which returns another ordering
C32_Witness ==
    /\ Len(nodeRun) = 3
    /\ SameInputs(nodeRun[1], nodeRun[2]) /\ SameInputs(nodeRun[2], nodeRun[3])
    /\ nodeRun[1].list = nodeRun[2].list
    /\ nodeRun[3].list # nodeRun[1].list

(***************************************************************************)
(* The locks of App: every operation of xbridgeapp.cpp as the sequence of  *)
(* LOCK scopes it enters and leaves; a thread waits at a LOCK that another *)
(* thread holds and may enter again one that it holds itself               *)
(***************************************************************************)
locksRest == <<lastRest, snVars, ppVars, flushRun, buildRun>>

Acq(l) == <<"acq", l>>
Rel(l) == <<"rel", l>>
Scope(l) == <<Acq(l), Rel(l)>>

\* the LOCK scopes of the operations, in the order of their statements
LockPrograms ==
    [ \* lines 617-674: isKnownMessage, addToKnown, getSession(id), then
      \* getSession() inside the scope of m_connectorsLock
      onMessageReceived |->
          Scope("messagesLock") \o Scope("messagesLock") \o Scope("sessionsLock")
          \o <<Acq("connectorsLock")>> \o Scope("sessionsLock") \o <<Rel("connectorsLock")>>,
      \* lines 3113-3128
      clearNonLocalOrders |->
          <<Acq("txLocker")>> \o Scope("connectorsLock") \o <<Rel("txLocker")>>,
      \* lines 1327-1364: the maps, then unlockCoins and removePackets
      moveTransactionToHistory |->
          Scope("txLocker") \o Scope("utxosLock") \o Scope("ppLocker"),
      \* lines 1368-1604: connectorByCurrency twice, the selection and lockCoins
      \* inside the scope of m_utxosOrderLock, updateConnector twice, the insert
      sendXBridgeTransaction |->
          Scope("connectorsLock") \o Scope("connectorsLock")
          \o <<Acq("utxosOrderLock")>> \o Scope("utxosLock") \o Scope("utxosLock")
          \o <<Rel("utxosOrderLock")>>
          \o Scope("connectorsLock") \o Scope("connectorsLock") \o Scope("txLocker"),
      \* lines 1675-1952: the lookup, connectorByCurrency twice, the fee utxos,
      \* the selection and lockCoins inside the scope of m_utxosOrderLock
      acceptXBridgeTransaction |->
          Scope("txLocker") \o Scope("connectorsLock") \o Scope("connectorsLock")
          \o Scope("utxosLock")
          \o <<Acq("utxosOrderLock")>> \o Scope("utxosLock") \o Scope("utxosLock")
          \o <<Rel("utxosOrderLock")>>
          \o Scope("connectorsLock") \o Scope("connectorsLock"),
      \* lines 2937-3011: the copy, TRY_LOCK of an order, the erase
      checkAndEraseExpiredTransactions |->
          Scope("txLocker") \o <<<<"try", "orderMutex">>, Rel("orderMutex")>> \o Scope("txLocker"),
      \* lines 897-1170: the flag, the stale wallets, removeConnector, the bad
      \* wallets, addConnector, removeConnector, the bad wallets, the flag
      updateActiveWallets |->
          Scope("updatingWalletsLock") \o Scope("connectorsLock") \o Scope("connectorsLock")
          \o Scope("updatingWalletsLock") \o Scope("connectorsLock") \o Scope("connectorsLock")
          \o Scope("updatingWalletsLock") \o Scope("updatingWalletsLock"),
      \* lines 3021-3100: getSession, the pending packets, getSession
      onTimer |->
          Scope("sessionsLock") \o Scope("ppLocker") \o Scope("sessionsLock"),
      \* lines 2741-2851: the guard, unwatchSpentDeposit, the flag
      checkWatchesOnDepositSpends |->
          Scope("watchDepositsLocker") \o Scope("watchDepositsLocker")
          \o Scope("watchDepositsLocker"),
      \* lines 2862-2933: the guard, unwatchTraderDeposit, the flag
      watchTraderDeposits |->
          Scope("watchTradersLocker") \o Scope("watchTradersLocker")
          \o Scope("watchTradersLocker"),
      \* lines 1277-1300
      flushCancelledOrders |-> Scope("txLocker") ]

LockOps == DOMAIN LockPrograms

\* the thread that holds lock l, if any
Holders(l) == {t \in LockThreads : \E i \in DOMAIN lockHeld[t] : lockHeld[t][i] = l}

\* the next lock step of thread t
NextStep(t) == LockPrograms[lockPc[t].op][lockPc[t].at]

\* thread t waits at a LOCK that another thread holds
Blocked(t) ==
    /\ lockPc[t].op # "idle"
    /\ NextStep(t)[1] = "acq"
    /\ Holders(NextStep(t)[2]) \ {t} # {}

Advance(t) ==
    IF lockPc[t].at = Len(LockPrograms[lockPc[t].op])
      THEN [lockPc EXCEPT ![t] = [op |-> "idle", at |-> 1]]
      ELSE [lockPc EXCEPT ![t].at = @ + 1]

\* a thread starts an operation
LockBegin(t) ==
    /\ lockPc[t].op = "idle"
    /\ \E op \in LockOps : lockPc' = [lockPc EXCEPT ![t] = [op |-> op, at |-> 1]]
    /\ UNCHANGED <<lockHeld, locksRest>>

\* LOCK(l): the thread enters the scope once no other thread holds l
LockAcquire(t) ==
    /\ lockPc[t].op # "idle"
    /\ NextStep(t)[1] = "acq"
    /\ ~Blocked(t)
    /\ lockHeld' = [lockHeld EXCEPT ![t] = Append(@, NextStep(t)[2])]
    /\ lockPc' = Advance(t)
    /\ UNCHANGED locksRest

\* TRY_LOCK(l): when another thread holds l the scope is skipped with its end
LockTry(t) ==
    /\ lockPc[t].op # "idle"
    /\ NextStep(t)[1] = "try"
    /\ IF Holders(NextStep(t)[2]) \ {t} # {}
         THEN /\ lockPc' = [lockPc EXCEPT ![t].at = @ + 2]
              /\ UNCHANGED lockHeld
         ELSE /\ lockHeld' = [lockHeld EXCEPT ![t] = Append(@, NextStep(t)[2])]
              /\ lockPc' = Advance(t)
    /\ UNCHANGED locksRest

\* the end of a scope: the lock taken last is released
LockRelease(t) ==
    /\ lockPc[t].op # "idle"
    /\ NextStep(t)[1] = "rel"
    /\ lockHeld' = [lockHeld EXCEPT ![t] = SubSeq(@, 1, Len(@) - 1)]
    /\ lockPc' = Advance(t)
    /\ UNCHANGED locksRest

NextLocks ==
    \/ \E t \in LockThreads : LockBegin(t)
    \/ \E t \in LockThreads : LockAcquire(t)
    \/ \E t \in LockThreads : LockTry(t)
    \/ \E t \in LockThreads : LockRelease(t)

SpecLocks == Init /\ [][NextLocks]_vars

\* the order in which the locks are to be taken; m_utxosOrderLock has no place in it
LockRank ==
    [ connectorsLock |-> 1, sessionsLock |-> 2, txLocker |-> 3, utxosLock |-> 4,
      orderMutex |-> 5, watchDepositsLocker |-> 6, watchTradersLocker |-> 6,
      messagesLock |-> 7, ppLocker |-> 8, updatingWalletsLock |-> 9 ]

Ranked(l) == l \in DOMAIN LockRank

\* C33: no thread holds a lock that it took while holding a lock that comes later
\* in the order connectorsLock, sessionsLock, txLocker, utxosLock, per-order
\* mutex, watch lockers, messagesLock, ppLocker, updatingWalletsLock
C33_LockOrder ==
    \A t \in LockThreads :
        \A i, j \in DOMAIN lockHeld[t] :
            (i < j /\ Ranked(lockHeld[t][i]) /\ Ranked(lockHeld[t][j]))
                => LockRank[lockHeld[t][i]] <= LockRank[lockHeld[t][j]]

\* every thread of a set waits for a lock that a thread of the set holds
WaitCycle(S) ==
    /\ S # {}
    /\ \A t \in S : Blocked(t) /\ (Holders(NextStep(t)[2]) \ {t}) \subseteq S

\* the operations of this file never wait for each other in a cycle
C33_NoWaitCycle == \A S \in SUBSET LockThreads : ~WaitCycle(S)

(***************************************************************************)
(* Deferred packets: App::processLater, App::removePackets and the flush   *)
(* of the pending packets by App::Impl::onTimer                            *)
(***************************************************************************)
ppRest == <<lastRest, snVars, lockVars, flushRun, buildRun>>

\* the packets stored in a run are numbered in the order of their storing
MaxPackets == 3
PacketTxids == {1, 2}
\* the ticks a packet is seen waiting are counted up to this number
MaxWait == 3

\* m_pendingPackets[txid] = packet
SetPacket(map, txid, packet) ==
    [t \in DOMAIN map \cup {txid} |-> IF t = txid THEN packet ELSE map[t]]

\* App::processLater, lines 749-754
processLater(pending, txid, packet) == SetPacket(pending, txid, packet)

\* App::removePackets, lines 758-771
removePackets(pending, txid) == [t \in DOMAIN pending \ {txid} |-> pending[t]]

\* a session defers a packet for an order
ProcessLater ==
    /\ Len(ppLog) < MaxPackets
    /\ \E txid \in PacketTxids :
         /\ m_pendingPackets' = processLater(m_pendingPackets, txid, Len(ppLog) + 1)
         /\ ppLog' = Append(ppLog, [txid |-> txid, wait |-> 0, posted |-> 0, removed |-> FALSE])
    /\ UNCHANGED <<ppCounter, ppPosted, ppRest>>

\* the packets deferred for an order are dropped (the order went to history);
\* every packet stored for the order and not posted counts as removed
RemovePackets ==
    /\ \E txid \in DOMAIN m_pendingPackets :
         /\ m_pendingPackets' = removePackets(m_pendingPackets, txid)
         /\ ppLog' = [p \in DOMAIN ppLog |->
                        IF ppLog[p].txid = txid /\ ppLog[p].posted = 0
                          THEN [ppLog[p] EXCEPT !.removed = TRUE] ELSE ppLog[p]]
    /\ UNCHANGED <<ppCounter, ppPosted, ppRest>>

\* the packets of a map
PacketsOf(map) == {map[t] : t \in DOMAIN map}

\* a tick of onTimer, lines 3075-3096: every second tick the map is copied and
\* cleared under m_ppLocker and every packet of the copy is posted to a session
PendingTick ==
    /\ \E p \in DOMAIN ppLog : ppLog[p].wait < MaxWait
    /\ LET flush == ppCounter + 1 = 2
           map == IF flush THEN m_pendingPackets ELSE <<>>
       IN /\ ppCounter' = IF flush THEN 0 ELSE ppCounter + 1
          /\ m_pendingPackets' = IF flush THEN <<>> ELSE m_pendingPackets
          /\ ppPosted' = PacketsOf(map)
          /\ ppLog' = [p \in DOMAIN ppLog |->
                         [ppLog[p] EXCEPT
                            !.posted = IF p \in PacketsOf(map) THEN @ + 1 ELSE @,
                            !.wait = IF @ < MaxWait /\ ppLog[p].posted = 0 /\ ~ppLog[p].removed
                                       THEN @ + 1 ELSE @]]
    /\ UNCHANGED ppRest

NextPending ==
    \/ ProcessLater
    \/ RemovePackets
    \/ PendingTick

SpecPending == Init /\ [][NextPending]_vars

\* packet p is in the pending map
IsPending(p) ==
    ppLog[p].txid \in DOMAIN m_pendingPackets /\ m_pendingPackets[ppLog[p].txid] = p

\* C34: every packet stored with processLater and not removed by removePackets
\* either waits in the pending map, stored less than two ticks ago, or was
\* posted to a session once, at most two ticks after it was stored: none is lost
\* and none is posted twice, also when two packets are deferred for one order
C34_DeferredPosted ==
    \A p \in DOMAIN ppLog :
        ~ppLog[p].removed =>
            \/ ppLog[p].posted = 0 /\ IsPending(p) /\ ppLog[p].wait < 2
            \/ ppLog[p].posted = 1 /\ ~IsPending(p) /\ ppLog[p].wait <= 2

\* a flush leaves the pending map empty and posts what it held
C34_FlushEmpties ==
    [][(ppCounter = 1 /\ ppCounter' = 0) =>
          /\ m_pendingPackets' = <<>>
          /\ ppPosted' = PacketsOf(m_pendingPackets)]_vars

\* packets deferred for different orders are posted once, within two ticks
C34_OnePerOrderPosted ==
    \A p \in DOMAIN ppLog :
        (~ppLog[p].removed /\ \A q \in DOMAIN ppLog : q # p => ppLog[q].txid # ppLog[p].txid)
            => \/ ppLog[p].posted = 0 /\ IsPending(p) /\ ppLog[p].wait < 2
               \/ ppLog[p].posted = 1 /\ ~IsPending(p) /\ ppLog[p].wait <= 2

(***************************************************************************)
(* App::flushCancelledOrders with the list it returns                      *)
(***************************************************************************)
flushRest == <<outerRest, snVars, lockVars, ppVars, buildRun>>

\* a test that takes every cancelled order, whatever its age
FlushableAnyAge(o, keepTime) == o.state = "trCancelled"

\* the test of lines 1289-1290
Flushable(o, keepTime) == o.state = "trCancelled" /\ o.txtime < keepTime

\* the orders of a map in the order of its keys
RECURSIVE MapOrder(_)
MapOrder(map) ==
    IF map = {} THEN <<>>
    ELSE LET id == CHOOSE i \in map : \A j \in map : i <= j
         IN <<id>> \o MapOrder(map \ {id})

\* the loop of lines 1287-1297 over one map: the entries erased, in order
FlushMap(map, keepTime, hist) ==
    LET erased == SelectSeq(MapOrder(map), LAMBDA id : Flushable(orders[id], keepTime))
    IN [i \in DOMAIN erased |->
           [id |-> erased[i], txtime |-> orders[erased[i]].txtime, hist |-> hist]]

\* the calls of flushCancelledOrders in a run
MaxFlushes == 2

\* App::flushCancelledOrders, lines 1277-1300, the caller keeping the list
FlushReturn ==
    /\ flushRun.n < MaxFlushes
    /\ \E minAge \in 0..1 :
         LET keepTime == now - minAge
             list == FlushMap(m_transactions, keepTime, FALSE)
                     \o FlushMap(m_historicTransactions, keepTime, TRUE)
             erased == {list[i].id : i \in DOMAIN list}
         IN /\ m_transactions' = m_transactions \ erased
            /\ m_historicTransactions' = m_historicTransactions \ erased
            /\ flushRun' = [n |-> flushRun.n + 1, keepTime |-> keepTime, list |-> list]
    /\ orders' = Release(orders, m_transactions', m_historicTransactions', pc, loc)
    /\ UNCHANGED <<nextId, calls, m_utxosDict, m_feeUtxos, now, pc, loc, sweepPc, forErase,
                   flushRest>>

\* orders are created, announced, cancelled, retired and flushed
NextFlush ==
    \/ \E p \in StoreProcs : CreateBegin(p)
    \/ \E p \in StoreProcs : CreateUtxo(p)
    \/ \E p \in StoreProcs : CreateInsert(p)
    \/ \E p \in StoreProcs : MoveBegin(p)
    \/ \E p \in StoreProcs : MoveUnlock(p)
    \/ AppendTransaction
    \/ SessionCancel
    \/ FlushReturn
    \/ Tick

SpecFlush == InitStore /\ [][NextFlush]_vars

\* the orders a call with this keepTime is to remove
ToFlush(keepTime) ==
    {id \in m_transactions \cup m_historicTransactions :
        orders[id].state = "trCancelled" /\ orders[id].txtime < keepTime}

\* C35: a call of flushCancelledOrders removes from the live map and from the
\* history map exactly the orders that are Cancelled with a txtime before
\* now - minAge, returns one entry for each of them, and changes no other
\* order, no other entry of the two maps and no lock
C35_FlushFrame ==
    [][flushRun' # flushRun =>
         LET list == flushRun'.list
             F == ToFlush(flushRun'.keepTime)
         IN /\ m_transactions' = m_transactions \ F
            /\ m_historicTransactions' = m_historicTransactions \ F
            /\ {list[i].id : i \in DOMAIN list} = F
            /\ Len(list) = Cardinality(F)
            /\ \A i \in DOMAIN list : list[i].txtime = orders[list[i].id].txtime
            /\ \A id \in DOMAIN orders \ F : orders'[id] = orders[id]
            /\ DOMAIN orders' = DOMAIN orders
            /\ UNCHANGED <<m_utxosDict, m_feeUtxos>>]_vars

\* a call that removed an order from the history map and left a cancelled order
\* of the live map that is not old enough
C35_Witness ==
    /\ Len(flushRun.list) = 1
    /\ flushRun.list[1].hist
    /\ \E id \in m_transactions :
          orders[id].state = "trCancelled" /\ orders[id].txtime >= flushRun.keepTime

\* a call in progress holds utxo u of currency c: createOrder between lockCoins
\* and its insert, moveTransactionToHistory before its unlockCoins, acceptOrder
RunningCalls == {q \in Procs : pc[q] \notin {"idle", "done"}}
InProgress(c, u) ==
    \E q \in RunningCalls :
        \/ loc[q].cur = c /\ u \in Range(loc[q].sel)
        \/ /\ loc[q].id \in DOMAIN orders
           /\ orders[loc[q].id].fromCurrency = c
           /\ u \in Range(orders[loc[q].id].usedCoins)

\* C36: every utxo of the order-lock map is in the usedCoins of an order of the
\* live map, or of an order that a call in progress is about to insert or to
\* unlock; the coins of an order that left the live map are not locked
C36_NoLeakedLocks ==
    \A c \in DOMAIN m_utxosDict : \A u \in m_utxosDict[c] :
        LiveUsers(c, u) # {} \/ InProgress(c, u)

\* the same for the orders that leave the live map through
\* moveTransactionToHistory only
C36_MoveUnlocks ==
    [][\A p \in Procs : (pc[p] = "m_unlock" /\ pc'[p] = "idle") =>
          \A u \in Range(orders[loc[p].id].usedCoins) :
              u \notin LockedOf(m_utxosDict', orders[loc[p].id].fromCurrency)]_vars

\* the acceptOrder call of thread p is past the check of line 1699 on order id
PastAcceptCheck(p, id) ==
    /\ loc[p].op = "accept"
    /\ loc[p].id = id
    /\ pc[p] \in {"a_set", "a_validate", "a_utxo", "a_finish"}

\* C37: of the acceptOrder calls in progress on one order of the live map at
\* most one is past the already-accepted check
C37_SingleAcceptance ==
    \A id \in m_transactions :
        Cardinality({p \in Procs : PastAcceptCheck(p, id)}) <= 1

\* the usedCoins of an order are set by one accepting call at a time
C37_OneCallSetsCoins ==
    \A id \in m_transactions :
        Cardinality({p \in Procs : PastAcceptCheck(p, id) /\ pc[p] = "a_finish"}) <= 1

(***************************************************************************)
(* The expiry sweep next to an API thread that accepts announced orders    *)
(***************************************************************************)
NextExpire ==
    \/ AppendTransaction
    \/ \E p \in StoreProcs : AcceptBegin(p)
    \/ \E p \in StoreProcs : AcceptSet(p)
    \/ \E p \in StoreProcs : AcceptValidate(p)
    \/ \E p \in StoreProcs : AcceptUtxo(p)
    \/ \E p \in StoreProcs : AcceptFinish(p)
    \/ SweepCheck
    \/ SweepErase
    \/ Tick

SpecExpire == InitStore /\ [][NextExpire]_vars

\* order o is, at time t, in a state that justifies its erasure
EraseJustified(o, t) ==
    \/ o.state \in {"trExpired", "trOffline"} /\ t - o.txtime > TTL
    \/ o.state = "trPending" /\ t - o.created > deadlineTTL

\* the erase step of the sweep
SweepEraseStep == sweepPc = "erase" /\ sweepPc' = "idle"

\* C38: the sweep erases an order from the live map only if the order is, when
\* it is erased, Expired or Offline past TTL or Pending past deadlineTTL
C38_EraseJustified ==
    [][SweepEraseStep =>
          \A id \in forErase \cap m_transactions : EraseJustified(orders[id], now)]_vars

\* an order that acceptOrder moved to Accepting after the scan is not erased
C38_AcceptingNotErased ==
    [][SweepEraseStep =>
          \A id \in forErase \cap m_transactions : orders[id].state # "trAccepting"]_vars

(***************************************************************************)
(* The three containers of the registry against each other                 *)
(***************************************************************************)
\* the currencies of the connector list of registry r
ListCurrencies(r) == {r.list[i].currency : i \in DOMAIN r.list}

\* connector conn is the entry of the connector list for its currency
InList(r, conn) == \E i \in DOMAIN r.list : r.list[i] = conn

\* the list and the currency map name the same currencies; each map entry is
\* the connector the list holds for the entry's currency
Consistent(r) ==
    /\ ListCurrencies(r) = DOMAIN r.cur
    /\ \A c \in DOMAIN r.cur : r.cur[c].currency = c /\ InList(r, r.cur[c])
    /\ \A a \in DOMAIN r.addr : InList(r, r.addr[a])

\* C39: Registry consistency. After any interleaving of the refresh's
\* addConnector and removeConnector calls with updateConnector calls made by
\* API threads with a connector looked up earlier, the currencies of the
\* connector list are exactly the keys of the currency map, and every
\* connector of the currency map or the address map is the one the list holds
\* for its currency.
C39_RegistryConsistent == Consistent(Registry)

\* the refresh's own calls keep the registry consistent as long as no API
\* thread has written a connector it looked up before a refresh step
C39_ConsistentWithoutHandles ==
    [][(Consistent(Registry) /\ connHeld' = connHeld) => Consistent(RegistryNext)]_vars

(***************************************************************************)
(* The builders of the BCH connector, from their first line to their return *)
(***************************************************************************)
\* the caller's txId and rawTx before the call: empty strings
NoTxId == <<>>
NoRawTx == <<>>
\* the keys of the maker and of the taker
MPubKey == <<2, 7>>
XPubKey == <<3, 9>>
OP_TRUE == 81
OP_FALSE == 0

\* CTransaction::toString of a transaction of one input and one output
toString(tx, redeem) ==
    LE(tx.nVersion, 4) \o <<1>> \o tx.prevout \o SerBytes(redeem) \o tx.nSequence
        \o <<1>> \o tx.out \o LE(tx.nLockTime, 4)

\* rpc::decodeRawTransaction: whether the wallet answered, and the id of rawTx
decodeRawTransaction(rawTx, answered) ==
    [ok |-> answered, txid |-> IF answered THEN <<Hash(rawTx)>> ELSE NoTxId]

\* lines 876-887 / 952-963: the decoding of rawTx and the return
decodedResult(fn, run, created, rawTx, dec) ==
    [called |-> TRUE, fn |-> fn, signed |-> TRUE, created |-> created, decoded |-> dec.ok,
     ret |-> TRUE, txId |-> IF dec.ok THEN dec.txid ELSE NoTxId, rawTx |-> rawTx,
     signature |-> run.signature]

\* a builder that returned before rawTx was written
earlyReturn(fn, run, signed, created) ==
    [called |-> TRUE, fn |-> fn, signed |-> signed, created |-> created, decoded |-> FALSE,
     ret |-> FALSE, txId |-> NoTxId, rawTx |-> NoRawTx, signature |-> run.signature]

\* BchWalletConnector::createRefundTransaction
createRefundTransaction(amount, inner, lockTime, signOk, created, answered) ==
    LET sequence == IF lockTime > 0 THEN SEQUENCE_FINAL_1 ELSE SEQUENCE_FINAL
        txUnsigned == BchTx(amount, sequence, lockTime)
        run == SignRun("refund", inner, txUnsigned, amount, signOk)
        redeem == SerBytes(run.signature) \o SerBytes(MPubKey) \o <<OP_TRUE>> \o SerBytes(inner)
        rawTx == toString(txUnsigned, redeem)
    IN IF ~signOk THEN earlyReturn("refund", run, FALSE, FALSE)
       ELSE IF ~created THEN earlyReturn("refund", run, TRUE, FALSE)
       ELSE decodedResult("refund", run, TRUE, rawTx, decodeRawTransaction(rawTx, answered))

\* BchWalletConnector::createPaymentTransaction
createPaymentTransaction(amount, inner, signOk, created, answered) ==
    LET txUnsigned == BchTx(amount, SEQUENCE_FINAL, 0)
        run == SignRun("payment", inner, txUnsigned, amount, signOk)
        redeem == SerBytes(XPubKey) \o SerBytes(run.signature) \o SerBytes(MPubKey)
                      \o <<OP_FALSE>> \o SerBytes(inner)
        rawTx == toString(txUnsigned, redeem)
    IN IF ~signOk THEN earlyReturn("payment", run, FALSE, FALSE)
       ELSE IF ~created THEN earlyReturn("payment", run, TRUE, FALSE)
       ELSE decodedResult("payment", run, TRUE, rawTx, decodeRawTransaction(rawTx, answered))

buildRest == <<lastRest, snVars, lockVars, ppVars, flushRun>>

\* a call of createRefundTransaction by the session; a builder reads nothing
\* an earlier call left behind, so a run holds one call
RefundBuild ==
    /\ ~buildRun.called
    /\ \E amount \in BchAmounts, lockTime \in BchLockTimes, inner \in InnerScripts,
          signOk \in BOOLEAN, created \in BOOLEAN, answered \in BOOLEAN :
         buildRun' = createRefundTransaction(amount, inner, lockTime, signOk, created, answered)
    /\ UNCHANGED buildRest

\* a call of createPaymentTransaction by the session
PaymentBuild ==
    /\ ~buildRun.called
    /\ \E amount \in BchAmounts, inner \in InnerScripts,
          signOk \in BOOLEAN, created \in BOOLEAN, answered \in BOOLEAN :
         buildRun' = createPaymentTransaction(amount, inner, signOk, created, answered)
    /\ UNCHANGED buildRest

NextBuild ==
    \/ RefundBuild
    \/ PaymentBuild

SpecBuild == Init /\ [][NextBuild]_vars

\* C40: BCH transaction builders report failure faithfully.
\* createRefundTransaction and createPaymentTransaction return true only if
\* the transaction was signed and txId was set to the id of the produced
\* rawTx; on a signing failure or a failure to decode the signed transaction
\* they return false.
C40_BuildersFaithful ==
    buildRun.called =>
        /\ buildRun.ret =>
              /\ buildRun.signed
              /\ buildRun.rawTx # NoRawTx
              /\ buildRun.txId = decodeRawTransaction(buildRun.rawTx, TRUE).txid
        /\ (~buildRun.signed \/ (buildRun.rawTx # NoRawTx /\ ~buildRun.decoded)) => ~buildRun.ret

\* a signing failure, or a transaction object that was not created, is
\* reported: the builder returns false and leaves txId and rawTx alone
C40_SignFailureReported ==
    (buildRun.called /\ (~buildRun.signed \/ ~buildRun.created)) =>
        /\ ~buildRun.ret
        /\ buildRun.txId = NoTxId
        /\ buildRun.rawTx = NoRawTx

\* a decoded transaction is reported with its id
C40_DecodedReported ==
    (buildRun.called /\ buildRun.decoded) =>
        /\ buildRun.ret
        /\ buildRun.txId = decodeRawTransaction(buildRun.rawTx, TRUE).txid


==============================================================================
